---- MODULE Spec2Model ----
(***************************************************************************)
(* A model of the limcode codec: the adaptive Encoder/Decoder of           *)
(* rust/src/lib.rs, the bulk (POD) and parallel serializers of             *)
(* rust/src/serializer.rs and the bounds-checked readers of                *)
(* rust/src/deserializer.rs.                                               *)
(*                                                                         *)
(* Byte strings are kept run-length encoded, so that the program's own     *)
(* thresholds (4096, 65536, 16 MiB, 1,000,000 elements) are used as they   *)
(* are written in the source.  A run is a record                           *)
(*   [k, id, off, len]                                                     *)
(* k = "lit"    : len copies of the byte value id                          *)
(* k = "dat"    : bytes off .. off+len-1 of the caller's buffer number id  *)
(*                (its contents are arbitrary)                             *)
(* k = "uninit" : len bytes of reserved memory that the call under test    *)
(*                has not written: fresh from the allocator (id 0) or left *)
(*                there by an earlier use of the buffer (id of that use)   *)
(* k = "pf"     : len bytes of such memory at absolute offset off that     *)
(*                prefault_pages has walked over: the bytes at multiples   *)
(*                of PAGE_SIZE are 0, the others are still unwritten       *)
(* A byte string is a sequence of non-empty runs in which no two adjacent  *)
(* runs could be written as one, so two byte strings are equal (for every  *)
(* content of the callers' buffers) exactly when their run lists are.      *)
(***************************************************************************)
EXTENDS Integers, Sequences, FiniteSets, TLC

VARIABLES
    pc,           \* which object / call is live and how far it has come
    inner,        \* Encoder.inner: "None" or "Some" (the accelerator handle)
    fast_buffer,  \* Encoder.fast_buffer
    acc,          \* the bytes held by the accelerator behind Encoder.inner
    calls,        \* lengths of the span transfers (limcode_encoder_write_bytes,
                  \* limcode_decoder_read_bytes) issued by the last operation
    ops,          \* history: the Encoder operations called so far, in order
    written,      \* history: the encodings of those operations, concatenated
    out,          \* the value returned by the call under test
    dec,          \* the accelerator decoder behind Decoder.inner: [len, pos, ok]
    inp,          \* the input of the pure function / parallel call under test
    par,          \* the state of a parallel call: spawned and finished workers
    deserializer, \* the Deserializer under test: [input, pos]
    handles,      \* accelerator handles: how many were created and destroyed
    back          \* the result of the last read, or of decoding out

vars == <<pc, inner, fast_buffer, acc, calls, ops, written, out, dec, inp, par,
          deserializer, handles, back>>

----------------------------------------------------------------------------
(* Byte strings as run lists                                               *)

Lit(b, n) == [k |-> "lit", id |-> b, off |-> 0, len |-> n]
Dat(id, off, n) == [k |-> "dat", id |-> id, off |-> off, len |-> n]
Uninit(n) == [k |-> "uninit", id |-> 0, off |-> 0, len |-> n]
Pf(off, n) == [k |-> "pf", id |-> 0, off |-> off, len |-> n]

Positional(r) == r.k \in {"dat", "pf"}

Joins(a, b) ==
    /\ a.k = b.k
    /\ a.id = b.id
    /\ Positional(a) => b.off = a.off + a.len

One(r) == IF r.len = 0 THEN <<>> ELSE <<r>>

\* s ++ t
Cat(s, t) ==
    IF s = <<>> THEN t
    ELSE IF t = <<>> THEN s
    ELSE LET a == s[Len(s)]
             b == t[1]
         IN  IF Joins(a, b)
             THEN SubSeq(s, 1, Len(s) - 1)
                    \o <<[a EXCEPT !.len = a.len + b.len]>> \o Tail(t)
             ELSE s \o t

\* s.len()
RECURSIVE BLen(_)
BLen(s) == IF s = <<>> THEN 0 ELSE s[1].len + BLen(Tail(s))

SkipRun(r, n) ==
    [r EXCEPT !.len = r.len - n, !.off = IF Positional(r) THEN r.off + n ELSE r.off]

\* &s[..n]
RECURSIVE Take(_, _)
Take(s, n) ==
    IF n = 0 \/ s = <<>> THEN <<>>
    ELSE IF s[1].len <= n THEN <<s[1]>> \o Take(Tail(s), n - s[1].len)
    ELSE <<[s[1] EXCEPT !.len = n]>>

\* &s[n..]
RECURSIVE Drop(_, _)
Drop(s, n) ==
    IF s = <<>> THEN <<>>
    ELSE IF n = 0 THEN s
    ELSE IF s[1].len <= n THEN Drop(Tail(s), n - s[1].len)
    ELSE <<SkipRun(s[1], n)>> \o Tail(s)

\* &s[a..b]
Slice(s, a, b) == Take(Drop(s, a), b - a)

\* ptr::copy_nonoverlapping(w, mem + pos, w.len()): mem with w stored at pos
WriteAt(mem, pos, w) ==
    Cat(Cat(Take(mem, pos), w), Drop(mem, pos + BLen(w)))

\* the byte string of a sequence of byte values
RECURSIVE Lits(_)
Lits(bs) == IF bs = <<>> THEN <<>> ELSE Cat(<<Lit(bs[1], 1)>>, Lits(Tail(bs)))

----------------------------------------------------------------------------
(* 64-bit words.  A u64/usize is kept as four 16-bit limbs, least          *)
(* significant first, so that values up to 2^64 - 1 and their wrap-around  *)
(* are computed exactly.                                                   *)

LIMB == 256 * 256

U64OfNat(n) == <<n % LIMB, n \div LIMB, 0, 0>>

\* whether the word is small enough to be used as a length of the model
U64Small(x) == x[3] = 0 /\ x[4] = 0 /\ x[2] < 16384
U64ToNat(x) == x[1] + LIMB * x[2]

\* the w bytes of x, most significant first
to_be_bytes(x, w) ==
    [i \in 1..w |-> IF (w - i) % 2 = 0 THEN x[(w - i) \div 2 + 1] % 256
                                       ELSE x[(w - i) \div 2 + 1] \div 256]

\* u64::to_le_bytes / u32::to_le_bytes / u16::to_le_bytes (w bytes of x)
to_le_bytes(x, w) ==
    [i \in 1..w |-> IF i % 2 = 1 THEN x[(i + 1) \div 2] % 256
                                 ELSE x[i \div 2] \div 256]

\* u64::from_le_bytes / ptr::read_unaligned::<u64> on a little-endian target
from_le_bytes(b) == [j \in 1..4 |-> b[2 * j - 1] + 256 * b[2 * j]]

\* the 8-byte little-endian length prefix of a length n
LE64(n) == Lits(to_le_bytes(U64OfNat(n), 8))

\* x + y and x * k (k a small factor) modulo 2^64, with the carry out
U64Add(x, y) ==
    LET s1 == x[1] + y[1]
        s2 == x[2] + y[2] + s1 \div LIMB
        s3 == x[3] + y[3] + s2 \div LIMB
        s4 == x[4] + y[4] + s3 \div LIMB
    IN  [v |-> <<s1 % LIMB, s2 % LIMB, s3 % LIMB, s4 % LIMB>>, ovf |-> s4 \div LIMB # 0]

U64Mul(x, k) ==
    LET p1 == x[1] * k
        p2 == x[2] * k + p1 \div LIMB
        p3 == x[3] * k + p2 \div LIMB
        p4 == x[4] * k + p3 \div LIMB
    IN  [v |-> <<p1 % LIMB, p2 % LIMB, p3 % LIMB, p4 % LIMB>>, ovf |-> p4 \div LIMB # 0]

\* x < y
U64Less(x, y) ==
    \E i \in 1..4 : x[i] < y[i] /\ \A j \in (i + 1)..4 : x[j] = y[j]

\* usize arithmetic as the build compiles it: with overflow checks (debug) an
\* overflow panics, without them (release) the result wraps
usize_add(x, y, build) ==
    LET r == U64Add(x, y) IN [v |-> r.v, panic |-> r.ovf /\ build = "debug"]
usize_mul(x, k, build) ==
    LET r == U64Mul(x, k) IN [v |-> r.v, panic |-> r.ovf /\ build = "debug"]

\* the byte values of a byte string made of literal bytes only
RECURSIVE ByteValues(_)
ByteValues(s) ==
    IF s = <<>> THEN <<>>
    ELSE [i \in 1..s[1].len |-> s[1].id] \o ByteValues(Tail(s))

----------------------------------------------------------------------------
(* The accelerator behind Encoder.inner (the separately compiled encoder   *)
(* reached through the extern "C" functions of lib.rs): an append-only     *)
(* byte buffer.                                                            *)

limcode_encoder_new == <<>>
limcode_encoder_write_bytes(a, span) == Cat(a, span)
limcode_encoder_write_uint(a, v, w) == Cat(a, Lits(to_le_bytes(U64OfNat(v), w)))
limcode_encoder_size(a) == BLen(a)

\* the LEB128 bytes of v: seven bits per byte, least significant group first,
\* the top bit set on every byte but the last
RECURSIVE leb128(_)
leb128(v) == IF v < 128 THEN <<v>> ELSE <<128 + (v % 128)>> \o leb128(v \div 128)

limcode_encoder_write_varint(a, v) == Cat(a, Lits(leb128(v)))
limcode_encoder_into_vec(a) == a

----------------------------------------------------------------------------
(* Encoder (rust/src/lib.rs).  An Encoder value e is                       *)
(*   [inner, fast_buffer, acc, calls]                                      *)
(* where acc is the accelerator's buffer (empty while inner = "None") and  *)
(* calls lists the lengths of the limcode_encoder_write_bytes calls made.  *)

FAST_PATH_THRESHOLD == 4096

EncoderNew == [inner |-> "None", fast_buffer |-> <<>>, acc |-> <<>>, calls |-> <<>>]

get_or_create_inner(e) ==
    IF e.inner = "Some" THEN e
    ELSE [e EXCEPT !.inner = "Some", !.acc = limcode_encoder_new]

\* one limcode_encoder_write_bytes(inner, span.as_ptr(), span.len())
ffi_write_bytes(e, span) ==
    [e EXCEPT !.acc = limcode_encoder_write_bytes(e.acc, span),
              !.calls = Append(e.calls, BLen(span))]

write_uint(e, v, w) ==
    LET e1 == get_or_create_inner(e)
    IN  [e1 EXCEPT !.acc = limcode_encoder_write_uint(e1.acc, v, w)]

write_u8(e, v) == write_uint(e, v, 1)
write_u16(e, v) == write_uint(e, v, 2)
write_u32(e, v) == write_uint(e, v, 4)
write_u64(e, v) == write_uint(e, v, 8)

\* Encoder::write_varint
write_varint(e, v) ==
    LET e1 == get_or_create_inner(e)
    IN  [e1 EXCEPT !.acc = limcode_encoder_write_varint(e1.acc, v)]

\* chunk_size with the last tier raised to 64 KiB
chunk_size_64k(n) ==
    IF n <= 4096 THEN n
    ELSE IF n <= 65536 THEN 16 * 1024
    ELSE IF n <= 1048576 THEN 32 * 1024
    ELSE 64 * 1024

\* the match on data.len() in Encoder::write_bytes
chunk_size(n) ==
    IF n <= 4096 THEN n
    ELSE IF n <= 65536 THEN 16 * 1024
    ELSE IF n <= 1048576 THEN 32 * 1024
    ELSE 48 * 1024

\* data.chunks(cs)
RECURSIVE chunks(_, _)
chunks(data, cs) ==
    IF data = <<>> THEN <<>>
    ELSE <<Take(data, cs)>> \o chunks(Drop(data, cs), cs)

RECURSIVE ffi_write_all(_, _)
ffi_write_all(e, spans) ==
    IF spans = <<>> THEN e
    ELSE ffi_write_all(ffi_write_bytes(e, spans[1]), Tail(spans))

\* write_bytes whose loop ends after its first chunk
write_bytes_first_chunk(e, data) ==
    LET cs == chunk_size(BLen(data))
        e1 == get_or_create_inner(e)
    IN  ffi_write_bytes(e1, Take(data, cs))

write_bytes(e, data) ==
    LET cs == chunk_size(BLen(data))
        e1 == get_or_create_inner(e)
    IN  IF BLen(data) <= cs
        THEN ffi_write_bytes(e1, data)
        ELSE ffi_write_all(e1, chunks(data, cs))

write_vec_bincode(e, data) ==
    IF BLen(data) <= FAST_PATH_THRESHOLD
    THEN LET total_len == BLen(data) + 8
             \* reserve(total_len): room for total_len bytes after the contents
             mem0 == Cat(e.fast_buffer, <<Uninit(total_len)>>)
             \* both copies go to as_mut_ptr(), the start of the buffer
             mem1 == WriteAt(mem0, 0, LE64(BLen(data)))
             mem2 == WriteAt(mem1, 8, data)
         IN  \* set_len(total_len)
             [e EXCEPT !.fast_buffer = Take(mem2, total_len)]
    ELSE LET e1 == IF e.fast_buffer # <<>>
                   THEN [ffi_write_bytes(get_or_create_inner(e), e.fast_buffer)
                            EXCEPT !.fast_buffer = <<>>]
                   ELSE e
         IN  write_bytes(write_u64(e1, BLen(data)), data)

\* Encoder::size
\* size() counting the accelerator's bytes only
size_accelerator_only(e) ==
    IF e.inner = "Some" THEN limcode_encoder_size(e.acc) ELSE 0

size(e) ==
    (IF e.inner = "Some" THEN limcode_encoder_size(e.acc) ELSE 0) + BLen(e.fast_buffer)

\* Encoder::finish: the encoder it leaves behind (which is then dropped) and
\* the vector it returns; null tells whether limcode_encoder_into_vec hands
\* back a null buffer
finish(e, null) ==
    IF e.inner = "None" /\ e.fast_buffer # <<>>
    THEN [e |-> [e EXCEPT !.fast_buffer = <<>>], ret |-> e.fast_buffer]
    ELSE IF e.inner = "Some"
    THEN LET e1 == IF e.fast_buffer # <<>> THEN ffi_write_bytes(e, e.fast_buffer) ELSE e
         IN  IF null
             THEN [e |-> e1, ret |-> <<>>]
             ELSE [e |-> [e1 EXCEPT !.inner = "None"],
                   ret |-> limcode_encoder_into_vec(e1.acc)]
    ELSE [e |-> [e EXCEPT !.fast_buffer = <<>>], ret |-> e.fast_buffer]

\* the limcode_encoder_new calls made by an operation that takes e0 to e1
created(e0, e1) == IF e0.inner = "None" /\ e1.inner = "Some" THEN 1 ELSE 0

\* Drop for Encoder: the limcode_encoder_free calls it makes
drop_encoder(e) == IF e.inner = "Some" THEN 1 ELSE 0

\* Drop for Decoder: the limcode_decoder_free calls it makes
drop_decoder == 1

----------------------------------------------------------------------------
(* Decoder (rust/src/lib.rs) over the accelerator's decoder, which holds   *)
(* the input length and a read position; a read of more bytes than remain  *)
(* returns nonzero and reads nothing.                                      *)

limcode_decoder_new(n) == [len |-> n, pos |-> 0, ok |-> TRUE]
limcode_decoder_remaining(d) == d.len - d.pos
limcode_decoder_read(d, n) ==
    IF limcode_decoder_remaining(d) < n
    THEN [d EXCEPT !.ok = FALSE]
    ELSE [d EXCEPT !.pos = d.pos + n, !.ok = TRUE]

\* read_chunk_size with the 64 KiB tier ending one byte early
read_chunk_size_exclusive(n) ==
    IF n <= 4096 THEN n
    ELSE IF n < 65536 THEN 16 * 1024
    ELSE IF n <= 1048576 THEN 32 * 1024
    ELSE 48 * 1024

\* the match on out.len() in Decoder::read_bytes
read_chunk_size(n) ==
    IF n <= 4096 THEN n
    ELSE IF n <= 65536 THEN 16 * 1024
    ELSE IF n <= 1048576 THEN 32 * 1024
    ELSE 48 * 1024

\* the lengths of out.chunks_mut(cs) for out.len() = n
RECURSIVE chunk_lens(_, _)
chunk_lens(n, cs) ==
    IF n = 0 THEN <<>>
    ELSE IF n <= cs THEN <<n>>
    ELSE <<cs>> \o chunk_lens(n - cs, cs)

\* the loop of Decoder::read_bytes: it returns at the first failing call
RECURSIVE read_all(_, _, _)
read_all(d, lens, done) ==
    IF lens = <<>> THEN [d |-> d, calls |-> done]
    ELSE LET d1 == limcode_decoder_read(d, lens[1])
         IN  IF d1.ok THEN read_all(d1, Tail(lens), Append(done, lens[1]))
             ELSE [d |-> d1, calls |-> Append(done, lens[1])]

\* Decoder::read_bytes(out) with out.len() = n
read_bytes(d, n) ==
    LET cs == read_chunk_size(n)
    IN  IF n <= cs THEN read_all(d, <<n>>, <<>>)
        ELSE read_all(d, chunk_lens(n, cs), <<>>)

\* Decoder::read_u8 .. read_u64: one fixed-width read of w bytes
read_uint(d, w) == [d |-> limcode_decoder_read(d, w), calls |-> <<>>]

\* limcode_decoder_read_varint over the input data: the LEB128 value at the
\* read position, of at most 10 bytes; it fails when the input ends first
limcode_decoder_read_varint(d, data) ==
    LET RECURSIVE parse(_, _)
        parse(bs, k) ==
            LET more(r) == [ok |-> r.ok, v |-> bs[1] - 128 + 128 * r.v, n |-> r.n + 1]
            IN  IF bs = <<>> \/ k = 0 THEN [ok |-> FALSE, v |-> 0, n |-> 0]
                ELSE IF bs[1] < 128 THEN [ok |-> TRUE, v |-> bs[1], n |-> 1]
                ELSE more(parse(Tail(bs), k - 1))
        result(r) ==
            IF r.ok THEN [d |-> [d EXCEPT !.pos = d.pos + r.n, !.ok = TRUE], v |-> r.v]
            ELSE [d |-> [d EXCEPT !.ok = FALSE], v |-> 0]
    IN  result(parse(ByteValues(Slice(data, d.pos,
                        IF d.pos + 10 <= d.len THEN d.pos + 10 ELSE d.len)), 10))

\* Decoder::read_varint
read_varint(d, data) ==
    LET r == limcode_decoder_read_varint(d, data)
    IN  [d |-> r.d, calls |-> <<>>, v |-> r.v]

----------------------------------------------------------------------------
(* The vectorized copy engine and the bulk (POD) serializers               *)
(* (rust/src/serializer.rs; serialize_bincode of lib.rs has the same       *)
(* shape).  The environment env of a call has the fields align, the        *)
(* address of the destination allocation modulo 64, and simd, the vector   *)
(* instruction set the crate was built for.                                *)

PAGE_SIZE == 4096

\* the bytes of run r, which starts at offset p of the destination, after one
\* zero byte has been written at every multiple of PAGE_SIZE
RECURSIVE touch_run(_, _)
touch_run(r, p) ==
    LET q == ((p + PAGE_SIZE - 1) \div PAGE_SIZE) * PAGE_SIZE
    IN  IF r.len = 0 THEN <<>>
        ELSE IF r.k = "uninit" THEN <<[Pf(p, r.len) EXCEPT !.id = r.id]>>
        ELSE IF r.k = "pf" \/ q >= p + r.len THEN <<r>>
        ELSE Cat(Cat(Take(<<r>>, q - p), <<Lit(0, 1)>>),
                 touch_run(SkipRun(r, q - p + 1), q + 1))

RECURSIVE touch_runs(_, _)
touch_runs(s, p) ==
    IF s = <<>> THEN <<>>
    ELSE Cat(touch_run(s[1], p), touch_runs(Tail(s), p + s[1].len))

\* prefault_pages(ptr, len): for i in 0..num_pages, write 0 at ptr + i*PAGE_SIZE
\* when i*PAGE_SIZE < len
prefault_pages(mem, len) ==
    Cat(touch_runs(Take(mem, len), 0), Drop(mem, len))

\* the vector width and the bytes per loop iteration of each build
VecWidth(simd) == CASE simd = "avx512" -> 64 [] simd = "avx2" -> 32 [] simd = "sse2" -> 16 [] OTHER -> 0
BlockSize(simd) == CASE simd = "avx512" -> 128 [] simd = "avx2" -> 128 [] simd = "sse2" -> 64 [] OTHER -> 0

\* the three phases of fast_nt_memcpy for a destination address addr and len
\* bytes: lead (the alignment loop, which copies one vector width per turn and
\* so never changes addr modulo the width), main (the streaming loop) and tail
nt_phases(addr, len, simd) ==
    LET w == VecWidth(simd)
        b == BlockSize(simd)
        lead == IF w # 0 /\ addr % w # 0 THEN (len \div w) * w ELSE 0
        main == IF b # 0 THEN ((len - lead) \div b) * b ELSE 0
    IN  [lead |-> lead, main |-> main, tail |-> len - lead - main]

\* fast_nt_memcpy without the copy of the remaining bytes after the loops
fast_nt_memcpy_no_tail(mem, dst, src, env) ==
    LET ph == nt_phases(env.align + dst, BLen(src), env.simd)
        m1 == WriteAt(mem, dst, Take(src, ph.lead))
    IN  WriteAt(m1, dst + ph.lead, Slice(src, ph.lead, ph.lead + ph.main))

\* fast_nt_memcpy(mem + dst, src, len)
fast_nt_memcpy(mem, dst, src, env) ==
    LET ph == nt_phases(env.align + dst, BLen(src), env.simd)
        m1 == WriteAt(mem, dst, Take(src, ph.lead))
        m2 == WriteAt(m1, dst + ph.lead, Slice(src, ph.lead, ph.lead + ph.main))
    IN  WriteAt(m2, dst + ph.lead + ph.main, Drop(src, ph.lead + ph.main))

\* a slice of n elements of s bytes each is the caller's buffer number 0
PodBytes(v) == One(Dat(0, 0, v.n * v.s))

PREFAULT_THRESHOLD == 16777216
NT_THRESHOLD == 65536

\* serialize_pod_into without buf.clear() and with a set_len that never shrinks
serialize_pod_into_keep_len(v, buf, env) ==
    LET byte_len == v.n * v.s
        total_len == 8 + byte_len
        mem0 == IF BLen(buf) >= total_len THEN buf ELSE <<Uninit(total_len)>>
        mem1 == WriteAt(mem0, 0, LE64(v.n))
        mem2 == IF byte_len > PREFAULT_THRESHOLD
                THEN prefault_pages(mem1, total_len) ELSE mem1
        mem3 == IF byte_len <= NT_THRESHOLD
                THEN WriteAt(mem2, 8, PodBytes(v))
                ELSE fast_nt_memcpy(mem2, 8, PodBytes(v), env)
    IN  mem3

\* serialize_pod_into(vec, buf): the contents of buf afterwards. buf is given
\* as the bytes of its allocation (its capacity): clear() leaves them where
\* they are, and reserve(total_len) keeps the allocation when it is large
\* enough and takes a new one otherwise
serialize_pod_into(v, buf, env) ==
    LET byte_len == v.n * v.s
        total_len == 8 + byte_len
        \* buf.clear(); buf.reserve(total_len)
        mem0 == IF BLen(buf) >= total_len THEN buf ELSE <<Uninit(total_len)>>
        mem1 == WriteAt(mem0, 0, LE64(v.n))
        mem2 == IF byte_len > PREFAULT_THRESHOLD
                THEN prefault_pages(mem1, total_len) ELSE mem1
        mem3 == IF byte_len <= NT_THRESHOLD
                THEN WriteAt(mem2, 8, PodBytes(v))
                ELSE fast_nt_memcpy(mem2, 8, PodBytes(v), env)
    IN  \* buf.set_len(total_len)
        Take(mem3, total_len)

\* serialize_pod(vec)
serialize_pod(v, env) == serialize_pod_into(v, <<>>, env)

\* serialize_bincode(data) of lib.rs: the same steps over a byte slice, with
\* lib.rs's own copies of prefault_pages and fast_nt_memcpy
serialize_bincode(data, env) ==
    LET total_len == BLen(data) + 8
        mem0 == <<Uninit(total_len)>>
        mem1 == WriteAt(mem0, 0, LE64(BLen(data)))
        mem2 == IF BLen(data) > 16777216
                THEN prefault_pages(mem1, total_len) ELSE mem1
        mem3 == IF BLen(data) <= 65536
                THEN WriteAt(mem2, 8, data)
                ELSE fast_nt_memcpy(mem2, 8, data, env)
    IN  Take(mem3, total_len)

\* the elements a .. b-1 of the slice, each written by FastWriter::write_u8 ..
\* write_f64 as its s little-endian bytes, one after the other
serialize_elements(v, a, b) == One(Dat(0, a * v.s, (b - a) * v.s))

\* serialize(&vec) / to_vec: serialize_seq writes the count, then every element
serialize(v) == Cat(LE64(v.n), serialize_elements(v, 0, v.n))

----------------------------------------------------------------------------
(* Specification Spec: one Encoder driven by any sequence of at most       *)
(* MaxOps writes and then finished, or one Decoder over an input of any    *)
(* of the lengths DecLens driven by at most MaxOps reads.                  *)

MaxOps == 3

\* payload lengths on both sides of every threshold of the Encoder/Decoder
EncLens == {0, 5, 4096, 4097, 65536, 65537, 1048576, 1048577}
DecLens == {0, 5, 4096, 20000, 65537, 1048577, 2000000}

U8Val == 42
U16Val == 1234
U32Val == 567890
U64Val == 12345
\* varint values of one, two and three bytes, on both sides of 2^7 and 2^14
VarintVals == {0, 127, 128, 16383, 16384, 1048575}

NoDecoder == [len |-> 0, pos |-> 0, ok |-> TRUE]
NoInput == [fn |-> "none", args |-> <<>>]
NoPar == [spawned |-> 0, done |-> {}, res |-> <<>>]
NoDeserializer == [input |-> <<>>, pos |-> 0]
NoHandles == [made |-> 0, freed |-> 0]
NoResult == [status |-> "none"]

Self == [inner |-> inner, fast_buffer |-> fast_buffer, acc |-> acc, calls |-> <<>>]

\* the caller's buffer passed to the next write: number Len(ops) + 1, n bytes
Payload(n) == One(Dat(Len(ops) + 1, 0, n))

UintBytes(v, w) == Lits(to_le_bytes(U64OfNat(v), w))

Init ==
    /\ pc = "enc"
    /\ inner = "None"
    /\ fast_buffer = <<>>
    /\ acc = <<>>
    /\ calls = <<>>
    /\ ops = <<>>
    /\ written = <<>>
    /\ out = <<>>
    /\ dec = NoDecoder
    /\ inp = NoInput
    /\ par = NoPar
    /\ deserializer = NoDeserializer
    /\ handles = NoHandles
    /\ back = NoResult

\* an Encoder write: e is the encoder after it, enc the encoding it stands for
EncStep(e, name, enc) ==
    /\ pc = "enc"
    /\ Len(ops) < MaxOps
    /\ inner' = e.inner
    /\ fast_buffer' = e.fast_buffer
    /\ acc' = e.acc
    /\ calls' = e.calls
    /\ ops' = Append(ops, name)
    /\ written' = Cat(written, enc)
    /\ handles' = [handles EXCEPT !.made = @ + created(Self, e)]
    /\ inp' = [inp EXCEPT !.args = Append(@, enc)]
    /\ UNCHANGED <<pc, out, dec, par, deserializer, back>>

WriteU8 == EncStep(write_u8(Self, U8Val), "write_u8", UintBytes(U8Val, 1))
WriteU16 == EncStep(write_u16(Self, U16Val), "write_u16", UintBytes(U16Val, 2))
WriteU32 == EncStep(write_u32(Self, U32Val), "write_u32", UintBytes(U32Val, 4))
WriteU64 == EncStep(write_u64(Self, U64Val), "write_u64", UintBytes(U64Val, 8))

WriteVarint ==
    \E v \in VarintVals :
        EncStep(write_varint(Self, v), "write_varint", Lits(leb128(v)))

WriteBytes ==
    \E n \in EncLens :
        EncStep(write_bytes(Self, Payload(n)), "write_bytes", Payload(n))

WriteVecBincode ==
    \E n \in EncLens :
        EncStep(write_vec_bincode(Self, Payload(n)), "write_vec_bincode",
                Cat(LE64(n), Payload(n)))

\* finish(self): the body, then the drop of self at the end of the call
Finish ==
    /\ pc = "enc"
    /\ \E null \in BOOLEAN :
          LET r == finish(Self, null)
          IN  /\ null => inner = "Some"
              /\ inner' = r.e.inner
              /\ fast_buffer' = r.e.fast_buffer
              /\ acc' = r.e.acc
              /\ calls' = r.e.calls
              /\ out' = r.ret
              /\ handles' = [handles EXCEPT !.freed = @ + drop_encoder(r.e)]
              /\ pc' = IF null THEN "finished_null" ELSE "finished"
    /\ UNCHANGED <<ops, written, dec, inp, par, deserializer, back>>

\* the Encoder goes out of scope without finish()
DropEncoder ==
    /\ pc = "enc"
    /\ handles' = [handles EXCEPT !.freed = @ + drop_encoder(Self)]
    /\ pc' = "dropped"
    /\ UNCHANGED <<inner, fast_buffer, acc, calls, ops, written, out, dec, inp, par, deserializer, back>>

\* the Decoder goes out of scope
DropDecoder ==
    /\ pc \in {"dec", "readback"}
    /\ handles' = [handles EXCEPT !.freed = @ + drop_decoder]
    /\ pc' = "dropped"
    /\ UNCHANGED <<inner, fast_buffer, acc, calls, ops, written, out, dec, inp, par, deserializer, back>>

\* Decoder::new(data) with data.len() = n, in a program that encodes nothing
DecoderNew ==
    /\ pc = "enc"
    /\ ops = <<>>
    /\ \E n \in DecLens : dec' = limcode_decoder_new(n)
    /\ pc' = "dec"
    /\ handles' = [handles EXCEPT !.made = @ + 1]
    /\ UNCHANGED <<inner, fast_buffer, acc, calls, ops, written, out, inp, par, deserializer, back>>

\* a Decoder read of n bytes: r is its outcome; back keeps what the caller
\* asked for and what remaining() was before the call
DecStep(r, name, n) ==
    /\ pc = "dec"
    /\ Len(ops) < MaxOps
    /\ dec' = r.d
    /\ calls' = r.calls
    /\ ops' = Append(ops, name)
    /\ back' = [status |-> IF r.d.ok THEN "Ok" ELSE "Err", len |-> n,
                before |-> limcode_decoder_remaining(dec)]
    /\ UNCHANGED <<pc, inner, fast_buffer, acc, written, out, inp, par, deserializer, handles>>

ReadUint == \E w \in {1, 2, 4, 8} : DecStep(read_uint(dec, w), "read_uint", w)

ReadBytes == \E n \in EncLens : DecStep(read_bytes(dec, n), "read_bytes", n)

\* Decoder::new(&bytes) over the vector finish() returned, in a program whose
\* writes were write_u8 .. write_u64, write_varint and write_bytes
DecoderOverOutput ==
    /\ pc = "finished"
    /\ \A i \in DOMAIN ops : ops[i] # "write_vec_bincode"
    /\ dec' = limcode_decoder_new(BLen(out))
    /\ back' = [status |-> "reading", ok |-> TRUE, reads |-> <<>>, vals |-> <<>>]
    /\ calls' = <<>>
    /\ pc' = "readback"
    /\ handles' = [handles EXCEPT !.made = @ + 1]
    /\ UNCHANGED <<inner, fast_buffer, acc, ops, written, out, inp, par, deserializer>>

\* the read that matches the next write, in the order of the writes: read_uN
\* for write_uN, read_varint for write_varint, read_bytes into a buffer of the
\* written length for write_bytes. reads holds the bytes each read consumed,
\* vals the value it returned (an integer as a 64-bit word)
ReadBack ==
    /\ pc = "readback"
    /\ back.ok
    /\ Len(back.reads) < Len(ops)
    /\ LET k == Len(back.reads) + 1
           w == CASE ops[k] = "write_u8" -> 1 [] ops[k] = "write_u16" -> 2
                  [] ops[k] = "write_u32" -> 4 [] OTHER -> 8
           taken(r) == IF r.d.ok THEN Slice(out, dec.pos, r.d.pos) ELSE <<>>
           word(r) == from_le_bytes(ByteValues(taken(r)) \o [i \in 1..(8 - w) |-> 0])
           done(r, v) ==
               /\ dec' = r.d
               /\ calls' = r.calls
               /\ back' = [back EXCEPT !.ok = r.d.ok,
                                       !.reads = Append(@, taken(r)),
                                       !.vals = Append(@, IF r.d.ok THEN v ELSE <<>>)]
           uint(r) == done(r, word(r))
           varint(r) == done(r, U64OfNat(r.v))
           bytes(r) == done(r, taken(r))
       IN  CASE ops[k] = "write_bytes" -> bytes(read_bytes(dec, BLen(inp.args[k])))
             [] ops[k] = "write_varint" -> varint(read_varint(dec, out))
             [] OTHER -> uint(read_uint(dec, w))
    /\ UNCHANGED <<pc, inner, fast_buffer, acc, ops, written, out, inp, par, deserializer, handles>>

Next ==
    \/ WriteU8
    \/ WriteU16
    \/ WriteU32
    \/ WriteU64
    \/ WriteVarint
    \/ WriteBytes
    \/ WriteVecBincode
    \/ Finish
    \/ DecoderOverOutput
    \/ ReadBack
    \/ DropEncoder
    \/ DecoderNew
    \/ DropDecoder
    \/ ReadUint
    \/ ReadBytes

Spec == Init /\ [][Next]_vars

----------------------------------------------------------------------------
(* The zero-copy readers: deserialize_bincode (rust/src/lib.rs) and the    *)
(* Deserializer with deserialize_pod_borrowed (rust/src/deserializer.rs).  *)
(* A result is [status, start, len, ...]: status "Ok", an error, or        *)
(* "Panic"; start and len place the returned view in the input.            *)

\* deserialize_bincode refusing an input that the declared length fills exactly
deserialize_bincode_no_exact_fit(data, build) ==
    IF BLen(data) < 8
    THEN [status |-> "Buffer too small", start |-> 0, len |-> U64OfNat(0)]
    ELSE LET len == from_le_bytes(ByteValues(Take(data, 8)))
             need == usize_add(U64OfNat(8), len, build)
         IN  IF need.panic
             THEN [status |-> "Panic", start |-> 0, len |-> U64OfNat(0)]
             ELSE IF ~U64Less(need.v, U64OfNat(BLen(data)))
             THEN [status |-> "Buffer too small", start |-> 0, len |-> U64OfNat(0)]
             ELSE [status |-> "Ok", start |-> 8, len |-> len]

\* deserialize_bincode(data)
deserialize_bincode(data, build) ==
    IF BLen(data) < 8
    THEN [status |-> "Buffer too small", start |-> 0, len |-> U64OfNat(0)]
    ELSE LET len == from_le_bytes(ByteValues(Take(data, 8)))
             need == usize_add(U64OfNat(8), len, build)
         IN  IF need.panic
             THEN [status |-> "Panic", start |-> 0, len |-> U64OfNat(0)]
             ELSE IF U64Less(U64OfNat(BLen(data)), need.v)
             THEN [status |-> "Buffer too small", start |-> 0, len |-> U64OfNat(0)]
             ELSE [status |-> "Ok", start |-> 8, len |-> len]

\* Deserializer::new(input)
DeserializerNew(input) == [input |-> input, pos |-> 0]

\* read_bytes going back to the start of the input when it fails
de_read_bytes_rewind(d, len, build) ==
    LET end == usize_add(U64OfNat(d.pos), len, build)
        fail(st) == [d |-> [d EXCEPT !.pos = 0], status |-> st, start |-> 0,
                     len |-> U64OfNat(0)]
    IN  IF end.panic THEN fail("Panic")
        ELSE IF U64Less(U64OfNat(BLen(d.input)), end.v) THEN fail("Eof")
        ELSE IF U64Less(end.v, U64OfNat(d.pos)) THEN fail("Panic")
        ELSE [d |-> [d EXCEPT !.pos = U64ToNat(end.v)], status |-> "Ok",
              start |-> d.pos, len |-> len]

\* Deserializer::read_bytes(len): the deserializer afterwards and the result;
\* input[pos..pos+len] panics when its end lies before its start
de_read_bytes(d, len, build) ==
    LET end == usize_add(U64OfNat(d.pos), len, build)
        fail(st) == [d |-> d, status |-> st, start |-> 0, len |-> U64OfNat(0)]
    IN  IF end.panic THEN fail("Panic")
        ELSE IF U64Less(U64OfNat(BLen(d.input)), end.v) THEN fail("Eof")
        ELSE IF U64Less(end.v, U64OfNat(d.pos)) THEN fail("Panic")
        ELSE [d |-> [d EXCEPT !.pos = U64ToNat(end.v)], status |-> "Ok",
              start |-> d.pos, len |-> len]

\* Deserializer::read_u64
de_read_u64(d, build) ==
    LET r == de_read_bytes(d, U64OfNat(8), build)
    IN  IF r.status # "Ok" THEN [d |-> r.d, status |-> r.status, v |-> U64OfNat(0)]
        ELSE [d |-> r.d, status |-> "Ok",
              v |-> from_le_bytes(ByteValues(Slice(d.input, r.start, r.start + 8)))]

\* deserialize_pod_borrowed::<T>(bytes) with size_of::<T>() = s: the view has
\* count elements and starts at byte start of the input
deserialize_pod_borrowed(bytes, s, build) ==
    LET de == DeserializerNew(bytes)
        n == de_read_u64(de, build)
        byte_len == usize_mul(n.v, s, build)
        raw == de_read_bytes(n.d, byte_len.v, build)
        fail(st) == [status |-> st, start |-> 0, count |-> U64OfNat(0), pos |-> n.d.pos]
    IN  IF n.status # "Ok" THEN fail(n.status)
        ELSE IF byte_len.panic THEN fail("Panic")
        ELSE IF raw.status # "Ok" THEN fail(raw.status)
        ELSE [status |-> "Ok", start |-> raw.start, count |-> n.v, pos |-> raw.d.pos]

\* deserialize_pod::<T>(bytes): the borrowed view, then slice.to_vec(), whose
\* allocation of count * s bytes panics (capacity overflow) above isize::MAX;
\* vec holds the bytes of the returned vector
deserialize_pod(bytes, s, build) ==
    LET to_vec_of(slice) ==
            LET byte_len == U64Mul(slice.count, s)
                result(st, vec) ==
                    [status |-> st, start |-> slice.start, count |-> slice.count,
                     pos |-> slice.pos, vec |-> vec]
            IN  IF slice.status # "Ok" THEN result(slice.status, <<>>)
                ELSE IF byte_len.ovf \/ byte_len.v[4] >= 32768 THEN result("Panic", <<>>)
                ELSE result("Ok", Slice(bytes, slice.start,
                                        slice.start + U64ToNat(byte_len.v)))
    IN  to_vec_of(deserialize_pod_borrowed(bytes, s, build))

\* the builds: with overflow checks (debug) or without (release)
Builds == {"debug", "release"}

----------------------------------------------------------------------------
(* Specification SpecPod: one call of serialize_pod, serialize_pod_into    *)
(* or serialize on a slice of n elements of s bytes, for element counts    *)
(* that put the payload on both sides of 64 KiB and of 16 MiB.             *)

PodCounts ==
    {0, 1, 1000, 8192, 8193, 65536, 65537, 100000,
     2097152, 2097153, 16777216, 16777217}
ElemSizes == {1, 2, 4, 8}
Aligns == {0, 8, 16, 32}
Simds == {"avx512", "avx2", "sse2", "none"}

\* what buf may hold when serialize_pod_into is called: nothing, or what
\* earlier calls left in an allocation of 100, 200,000 or 20,000,008 bytes
PriorBufs ==
    {<<>>} \cup {<<[Uninit(n) EXCEPT !.id = 9]>> : n \in {100, 200000, 20000008}}

InitPod ==
    /\ pc = "pod"
    /\ inp \in [fn : {"pod"}, n : PodCounts, s : ElemSizes, align : Aligns, simd : Simds]
    /\ dec = NoDecoder
    /\ inner = "None"
    /\ fast_buffer = <<>>
    /\ acc = <<>>
    /\ calls = <<>>
    /\ ops = <<>>
    /\ written = <<>>
    /\ out = <<>>
    /\ par = NoPar
    /\ deserializer = NoDeserializer
    /\ handles = NoHandles
    /\ back = NoResult

PodReturn(name, bytes) ==
    /\ pc = "pod"
    /\ out' = bytes
    /\ ops' = <<name>>
    /\ pc' = "pod_done"
    /\ UNCHANGED <<inner, fast_buffer, acc, calls, written, dec, inp, par, deserializer, handles, back>>

SerializePod == PodReturn("serialize_pod", serialize_pod(inp, inp))

SerializePodInto ==
    \E buf \in PriorBufs :
        PodReturn("serialize_pod_into", serialize_pod_into(inp, buf, inp))

Serialize == PodReturn("serialize", serialize(inp))

\* serialize_bincode(&data) for a byte slice
SerializeBincode ==
    /\ inp.s = 1
    /\ PodReturn("serialize_bincode", serialize_bincode(PodBytes(inp), inp))

\* deserialize_pod::<T>(&out) of what serialize_pod returned
DeserializePodBack ==
    /\ pc = "pod_done"
    /\ ops = <<"serialize_pod">>
    /\ \E build \in Builds : back' = deserialize_pod(out, inp.s, build)
    /\ ops' = Append(ops, "deserialize_pod")
    /\ pc' = "pod_back"
    /\ UNCHANGED <<inner, fast_buffer, acc, calls, written, out, dec, inp, par,
                   deserializer, handles>>

\* where in its allocation a destination starts, and the allocation around
\* a destination of len bytes: g bytes before it and 64 after it that the
\* copy has no business with
DstOffsets == {0, 8, 24}
Guard(n) == One([Uninit(n) EXCEPT !.id = 9])
Arena(g, len) == Cat(Cat(Guard(g), One(Uninit(len))), Guard(64))

\* fast_nt_memcpy(ptr.add(g), src, len) on its own; back keeps the
\* destination and the bytes each phase of the copy moved
FastNtMemcpy ==
    /\ pc = "pod"
    /\ \E g \in DstOffsets :
          /\ out' = fast_nt_memcpy(Arena(g, inp.n * inp.s), g, PodBytes(inp), inp)
          /\ back' = [status |-> "copied", dst |-> g,
                      ph |-> nt_phases(inp.align + g, inp.n * inp.s, inp.simd)]
    /\ ops' = <<"fast_nt_memcpy">>
    /\ pc' = "pod_done"
    /\ UNCHANGED <<inner, fast_buffer, acc, calls, written, dec, inp, par,
                   deserializer, handles>>

NextPod ==
    \/ DeserializePodBack
    \/ FastNtMemcpy
    \/ SerializePod
    \/ SerializePodInto
    \/ Serialize
    \/ SerializeBincode

SpecPod == InitPod /\ [][NextPod]_vars

\* C4: serialize_pod(v) and serialize_pod_into(v, buf) yield exactly
\* 8 + len(v)*size_of(T) bytes, the little-endian element count followed by the
\* elements' bytes in order, the same bytes as serialize(v), for every length.
C4_PodMatchesSerialize ==
    (pc = "pod_done" /\ ops[1] \in {"serialize_pod", "serialize_pod_into"}) =>
        /\ BLen(out) = 8 + inp.n * inp.s
        /\ Take(out, 8) = LE64(inp.n)
        /\ Drop(out, 8) = PodBytes(inp)
        /\ out = serialize(inp)

----------------------------------------------------------------------------
(* Specification SpecDe: one call of a reader on an input made of (at most *)
(* 8 bytes of) a declared 64-bit count followed by a body of up to MaxBody *)
(* bytes, in a build with or without overflow checks.                      *)

MaxBody == 17

\* declared counts: small ones, and ones whose sums and products pass 2^64
Declared ==
    {U64OfNat(k) : k \in 0..5} \cup
    { <<65535, 65535, 65535, 65535>>,   \* 2^64 - 1
      <<65528, 65535, 65535, 65535>>,   \* 2^64 - 8
      <<65527, 65535, 65535, 65535>>,   \* 2^64 - 9
      <<0, 0, 0, 8192>>,                \* 2^61
      <<1, 0, 0, 8192>>,                \* 2^61 + 1
      <<2, 0, 0, 32768>>,               \* 2^63 + 2
      <<0, 0, 1, 0>> }                  \* 2^32

\* the input: the first hdr bytes of the declared count, then body bytes
DeInput(declared, hdr, body) ==
    Cat(Lits(SubSeq(to_le_bytes(declared, 8), 1, hdr)), One(Dat(0, 0, body)))

InitDe ==
    /\ pc = "de"
    /\ \E d \in Declared, hdr \in 0..8, body \in 0..MaxBody, s \in ElemSizes, b \in Builds :
          /\ hdr < 8 => body = 0
          /\ inp = [fn |-> "de", data |-> DeInput(d, hdr, body), s |-> s, build |-> b]
    /\ dec = NoDecoder
    /\ inner = "None"
    /\ fast_buffer = <<>>
    /\ acc = <<>>
    /\ calls = <<>>
    /\ ops = <<>>
    /\ written = <<>>
    /\ out = <<>>
    /\ par = NoPar
    /\ deserializer = NoDeserializer
    /\ handles = NoHandles
    /\ back = NoResult

DeReturn(name, r) ==
    /\ pc = "de"
    /\ out' = r
    /\ ops' = <<name>>
    /\ pc' = "de_done"
    /\ UNCHANGED <<inner, fast_buffer, acc, calls, written, dec, inp, par, deserializer, handles, back>>

DeserializeBincode ==
    DeReturn("deserialize_bincode", deserialize_bincode(inp.data, inp.build))

DeserializePodBorrowed ==
    DeReturn("deserialize_pod_borrowed",
             deserialize_pod_borrowed(inp.data, inp.s, inp.build))

DeserializePod ==
    DeReturn("deserialize_pod", deserialize_pod(inp.data, inp.s, inp.build))

\* deserialize_bincode_unchecked(data): the outcomes of the call. Nothing is
\* checked: with the 8 prefix bytes in the input the view has the declared
\* length from offset 8, inside the input or not; on a shorter input the read
\* of the prefix is itself out of bounds, and the length is whatever lies
\* behind the input, or the read faults
deserialize_bincode_unchecked(data) ==
    IF BLen(data) >= 8
    THEN {[status |-> "Ok", start |-> 8,
           len |-> from_le_bytes(ByteValues(Take(data, 8)))]}
    ELSE {[status |-> "Ok", start |-> 8, len |-> l] : l \in Declared}
            \cup {[status |-> "Fault", start |-> 0, len |-> U64OfNat(0)]}

DeserializeBincodeUnchecked ==
    \E r \in deserialize_bincode_unchecked(inp.data) :
        DeReturn("deserialize_bincode_unchecked", r)

NextDe ==
    \/ DeserializeBincode
    \/ DeserializeBincodeUnchecked
    \/ DeserializePodBorrowed
    \/ DeserializePod

SpecDe == InitDe /\ [][NextDe]_vars

\* the declared count of the input, when it has its 8 bytes
DeclaredOf(data) == from_le_bytes(ByteValues(Take(data, 8)))

\* 8 + count * s <= n, in unbounded arithmetic
FitsIn(count, s, n) ==
    LET m == U64Mul(count, s)
    IN  /\ ~m.ovf
        /\ U64Small(m.v)
        /\ 8 + U64ToNat(m.v) <= n

\* C5: deserialize_bincode(data) is Err("Buffer too small") whenever data has
\* fewer than 8 bytes or the declared length exceeds data.len() - 8, for every
\* declared length up to 2^64 - 1, and Ok only with a slice inside data[8..].
C5_BincodeBoundsChecked ==
    (pc = "de_done" /\ ops[1] = "deserialize_bincode") =>
        LET n == BLen(inp.data)
            fits == n >= 8 /\ FitsIn(DeclaredOf(inp.data), 1, n)
        IN  /\ ~fits => out.status = "Buffer too small"
            /\ out.status = "Ok" => (fits /\ out.start = 8 /\ out.len = DeclaredOf(inp.data))

\* C6: deserialize_pod_borrowed::<T>(bytes) is Ok only if
\* 8 + count*size_of(T) <= bytes.len() for the declared count, for every count
\* up to 2^64 - 1; the view then has count elements inside bytes[8..]; in every
\* other case it returns an error.
C6_PodBorrowedBoundsChecked ==
    (pc = "de_done" /\ ops[1] = "deserialize_pod_borrowed") =>
        LET n == BLen(inp.data)
            fits == n >= 8 /\ FitsIn(DeclaredOf(inp.data), inp.s, n)
        IN  /\ out.status = "Ok" =>
                (fits /\ out.start = 8 /\ out.count = DeclaredOf(inp.data))
            /\ ~fits => out.status = "Eof"

----------------------------------------------------------------------------
(* The parallel chunked codec (rust/src/serializer.rs).  A call is in      *)
(* progress while pc is "pod_scope" (inside crossbeam::scope) or           *)
(* "vec_collect" (inside par_chunks(..).map(..).collect()); par holds the  *)
(* number of workers spawned so far, the set of workers that have          *)
(* finished and, per finished worker, the byte range it wrote (pod) or     *)
(* the buffer it produced (vec).  The result buffer is out.                *)

PARALLEL_THRESHOLD == 1000000
CHUNK_SIZE == 100000
VEC_PARALLEL_THRESHOLD == 1000000
VEC_CHUNK_SIZE == 100000

Min(a, b) == IF a <= b THEN a ELSE b

\* vec.len().div_ceil(CHUNK_SIZE)
num_chunks(v) == (v.n + CHUNK_SIZE - 1) \div CHUNK_SIZE

\* byte_offset without the element size
pod_chunk_no_elem_size(v, chunk_idx) ==
    LET chunk_start == chunk_idx * CHUNK_SIZE
        chunk_end == Min(chunk_start + CHUNK_SIZE, v.n)
    IN  [start |-> chunk_start, end |-> chunk_end,
         byte_offset |-> chunk_idx * CHUNK_SIZE,
         byte_len |-> (chunk_end - chunk_start) * v.s]

\* the chunk and the destination of worker chunk_idx of serialize_pod_parallel
pod_chunk(v, chunk_idx) ==
    LET chunk_start == chunk_idx * CHUNK_SIZE
        chunk_end == Min(chunk_start + CHUNK_SIZE, v.n)
    IN  [start |-> chunk_start, end |-> chunk_end,
         byte_offset |-> chunk_idx * CHUNK_SIZE * v.s,
         byte_len |-> (chunk_end - chunk_start) * v.s]

\* the scope returns without waiting for its workers
scope_detached(p) == TRUE

\* crossbeam::scope(..) returns once every worker spawned in it has finished
scope_joined(p) == p.done = 0..(p.spawned - 1)

\* vec.par_chunks(CHUNK_SIZE): the number of chunks and chunk i
vec_num_chunks(v) == (v.n + VEC_CHUNK_SIZE - 1) \div VEC_CHUNK_SIZE
vec_chunk(v, i) ==
    [start |-> i * VEC_CHUNK_SIZE, end |-> Min((i + 1) * VEC_CHUNK_SIZE, v.n)]

\* the chunk buffers joined last chunk first
RECURSIVE concat_reversed(_, _)
concat_reversed(bufs, k) ==
    IF k = 0 THEN <<>> ELSE Cat(bufs[k - 1], concat_reversed(bufs, k - 1))

\* for chunk_buf in chunk_buffers { result.extend_from_slice(&chunk_buf) }
\* over the buffers 0 .. k-1 in index order
RECURSIVE concat_chunks(_, _)
concat_chunks(bufs, k) ==
    IF k = 0 THEN <<>> ELSE Cat(concat_chunks(bufs, k - 1), bufs[k - 1])

\* collect() returns once every chunk has been mapped
collect_complete(p) == p.done = 0..(p.spawned - 1)

----------------------------------------------------------------------------
(* Specification SpecPar: one call of serialize_pod_parallel or            *)
(* serialize_vec_parallel.  Calls of up to MaxWorkers chunks are explored  *)
(* under every interleaving of their workers; the call above 16 MiB has    *)
(* more chunks and is explored with at most MaxInFlight unfinished workers *)
(* at a time.                                                              *)

MaxWorkers == 11
MaxInFlight == 2

ParCounts == {5, 999999, 1000000, 1000001, 1050000}
ParInputs ==
    [fn : {"serialize_pod_parallel", "serialize_vec_parallel"},
     n : ParCounts, s : {1, 8}, align : {8}, simd : {"avx2", "none"}]
    \cup [fn : {"serialize_pod_parallel"}, n : {2097153}, s : {8},
          align : {8}, simd : {"avx2"}]

InitPar ==
    /\ pc = "par"
    /\ inp \in ParInputs
    /\ par = NoPar
    /\ deserializer = NoDeserializer
    /\ handles = NoHandles
    /\ back = NoResult
    /\ out = <<>>
    /\ dec = NoDecoder
    /\ inner = "None"
    /\ fast_buffer = <<>>
    /\ acc = <<>>
    /\ calls = <<>>
    /\ ops = <<>>
    /\ written = <<>>

ParFrame == UNCHANGED <<inner, fast_buffer, acc, calls, ops, written, dec, inp, deserializer, handles, back>>

\* serialize_pod_parallel up to the scope: the sequential fallback, or the
\* zeroed buffer with the length prefix written
PodParCall ==
    /\ pc = "par"
    /\ inp.fn = "serialize_pod_parallel"
    /\ IF inp.n < PARALLEL_THRESHOLD
       THEN /\ out' = serialize_pod(inp, inp)
            /\ pc' = "returned"
       ELSE /\ out' = WriteAt(<<Lit(0, 8 + inp.n * inp.s)>>, 0, LE64(inp.n))
            /\ pc' = "pod_scope"
    /\ UNCHANGED par
    /\ ParFrame

InFlightLimit == IF num_chunks(inp) <= MaxWorkers THEN MaxWorkers ELSE MaxInFlight

\* one turn of the for loop: s.spawn(..) for chunk_idx = par.spawned
PodSpawn ==
    /\ pc = "pod_scope"
    /\ par.spawned < num_chunks(inp)
    /\ par.spawned - Cardinality(par.done) < InFlightLimit
    /\ par' = [par EXCEPT !.spawned = par.spawned + 1]
    /\ UNCHANGED <<pc, out>>
    /\ ParFrame

\* a spawned worker runs: chunk_dest.copy_from_slice(chunk_bytes)
PodWorker ==
    /\ inp.fn = "serialize_pod_parallel"
    /\ \E i \in (0..(par.spawned - 1)) \ par.done :
          LET c == pod_chunk(inp, i)
              lo == 8 + c.byte_offset
          IN  /\ out' = WriteAt(out, lo, One(Dat(0, c.start * inp.s, c.byte_len)))
              /\ par' = [par EXCEPT
                           !.done = par.done \cup {i},
                           !.res = [j \in par.done \cup {i} |->
                                      IF j = i THEN [lo |-> lo, hi |-> lo + c.byte_len]
                                      ELSE par.res[j]]]
    /\ UNCHANGED pc
    /\ ParFrame

\* the end of the scope, .unwrap() and Ok(result)
PodReturnResult ==
    /\ pc = "pod_scope"
    /\ par.spawned = num_chunks(inp)
    /\ scope_joined(par)
    /\ pc' = "returned"
    /\ UNCHANGED <<out, par>>
    /\ ParFrame

\* serialize_vec_parallel up to collect(): the sequential fallback, or one
\* task per chunk handed to the thread pool
VecParCall ==
    /\ pc = "par"
    /\ inp.fn = "serialize_vec_parallel"
    /\ IF inp.n < VEC_PARALLEL_THRESHOLD
       THEN /\ out' = serialize(inp)
            /\ pc' = "returned"
            /\ UNCHANGED par
       ELSE /\ par' = [par EXCEPT !.spawned = vec_num_chunks(inp)]
            /\ pc' = "vec_collect"
            /\ UNCHANGED out
    /\ ParFrame

\* a pool thread maps one chunk: every item serialized into the chunk's own buffer
VecWorker ==
    /\ inp.fn = "serialize_vec_parallel"
    /\ \E i \in (0..(par.spawned - 1)) \ par.done :
          LET c == vec_chunk(inp, i)
          IN  par' = [par EXCEPT
                        !.done = par.done \cup {i},
                        !.res = [j \in par.done \cup {i} |->
                                   IF j = i THEN serialize_elements(inp, c.start, c.end)
                                   ELSE par.res[j]]]
    /\ UNCHANGED <<pc, out>>
    /\ ParFrame

\* collect() has every buffer, in chunk order; the prefix and the buffers are
\* appended to result
VecReturnResult ==
    /\ pc = "vec_collect"
    /\ collect_complete(par)
    /\ out' = Cat(LE64(inp.n), concat_chunks(par.res, par.spawned))
    /\ pc' = "returned"
    /\ UNCHANGED par
    /\ ParFrame

NextPar ==
    \/ PodParCall
    \/ PodSpawn
    \/ PodWorker
    \/ PodReturnResult
    \/ VecParCall
    \/ VecWorker
    \/ VecReturnResult

SpecPar == InitPar /\ [][NextPar]_vars

----------------------------------------------------------------------------
(* The type-directed serializer and deserializer (rust/src/serializer.rs,  *)
(* rust/src/deserializer.rs).  A type is [t, w, kids]: t the kind, w the   *)
(* byte width of a number, kids the types of the element, of the payload   *)
(* or of the fields (for an enum: its variants, each with its own kids).   *)
(* A value is [t, w, n, kids]: n is <<limb1, .., limb4, neg>> (magnitude   *)
(* and sign) for an integer, the bit pattern for a float, <<0>> or <<1>>   *)
(* for a bool, the UTF-8 bytes of a string, the bytes of a byte buffer and *)
(* the variant index of an enum value; kids are the elements, the payload  *)
(* or the fields.                                                          *)

Unsigned == {"u8", "u16", "u32", "u64", "f32", "f64"}
Signed == {"i8", "i16", "i32", "i64"}
Variants == {"unit_variant", "newtype_variant", "tuple_variant", "struct_variant"}

\* the bits of a w-byte signed integer (v as u8, i16::to_le_bytes, ..): the
\* magnitude, or its two's complement in w bytes when the value is negative
cast_unsigned(n, w) ==
    LET mask(i) == IF 2 * i <= w THEN LIMB - 1 ELSE IF 2 * i - 1 = w THEN 255 ELSE 0
        inv == [i \in 1..4 |-> mask(i) - n[i]]
        inc == U64Add(inv, U64OfNat(1)).v
    IN  IF n[5] = 1 THEN [i \in 1..4 |-> inc[i] % (mask(i) + 1)] ELSE SubSeq(n, 1, 4)

\* a w-byte word read as unsigned whatever its top bit
cast_signed_zero_extend(x, w) == x \o <<0>>

\* x as i8 / i16 / i32 / i64: negative when the top bit of the w bytes is set
cast_signed(x, w) ==
    IF to_le_bytes(x, w)[w] >= 128
    THEN cast_unsigned(x \o <<1>>, w) \o <<1>>
    ELSE x \o <<0>>

\* value.serialize(&mut serializer): the FastWriter's buf afterwards
RECURSIVE serialize_value(_, _)
serialize_value(buf, v) ==
    LET \* FastWriter::write_u8 / write_u16 / write_u32 / write_u64 / write_bytes
        write(b, bytes) == Cat(b, Lits(bytes))
        RECURSIVE each(_, _)
        each(b, vs) ==
            IF vs = <<>> THEN b ELSE each(serialize_value(b, vs[1]), Tail(vs))
    IN  CASE v.t = "bool" -> write(buf, <<v.n[1]>>)
          [] v.t \in Unsigned -> write(buf, to_le_bytes(v.n, v.w))
          [] v.t \in Signed -> write(buf, to_le_bytes(cast_unsigned(v.n, v.w), v.w))
          [] v.t \in {"str", "bytes"} ->
                write(write(buf, to_le_bytes(U64OfNat(Len(v.n)), 8)), v.n)
          [] v.t = "none" -> write(buf, <<0>>)
          [] v.t = "some" -> each(write(buf, <<1>>), v.kids)
          [] v.t = "seq" ->
                each(write(buf, to_le_bytes(U64OfNat(Len(v.kids)), 8)), v.kids)
          [] v.t = "struct" -> each(buf, v.kids)
          [] v.t \in Variants ->
                each(write(buf, to_le_bytes(U64OfNat(v.n[1]), 4)), v.kids)

\* to_vec(value) / serialize(value)
to_vec(v) == serialize_value(<<>>, v)

\* std::str::from_utf8(b).is_ok()
RECURSIVE from_utf8(_)
from_utf8(b) ==
    LET rng(i, lo, hi) == i <= Len(b) /\ b[i] >= lo /\ b[i] <= hi
        cont(i) == rng(i, 128, 191)
        x == b[1]
        n == CASE x < 128 -> 1
               [] rng(1, 194, 223) /\ cont(2) -> 2
               [] x = 224 /\ rng(2, 160, 191) /\ cont(3) -> 3
               [] (rng(1, 225, 236) \/ rng(1, 238, 239)) /\ cont(2) /\ cont(3) -> 3
               [] x = 237 /\ rng(2, 128, 159) /\ cont(3) -> 3
               [] x = 240 /\ rng(2, 144, 191) /\ cont(3) /\ cont(4) -> 4
               [] rng(1, 241, 243) /\ cont(2) /\ cont(3) /\ cont(4) -> 4
               [] x = 244 /\ rng(2, 128, 143) /\ cont(3) /\ cont(4) -> 4
               [] OTHER -> 0
    IN  IF b = <<>> THEN TRUE
        ELSE IF n = 0 THEN FALSE
        ELSE from_utf8(SubSeq(b, n + 1, Len(b)))

\* a decoding result: the deserializer afterwards, "Ok" or the error (err is
\* the byte an InvalidBool carries), the value, and the read positions the
\* deserializer went through
DeResult(d, status, v, err, trace) ==
    [d |-> d, status |-> status, v |-> v, err |-> err, trace |-> trace]

\* deserialize_bool taking every nonzero byte as true
deserialize_bool_nonzero(d) ==
    IF d.pos >= BLen(d.input)
    THEN DeResult(d, "Eof", <<>>, 0, <<d.pos>>)
    ELSE LET v == ByteValues(Slice(d.input, d.pos, d.pos + 1))[1]
             d1 == [d EXCEPT !.pos = d.pos + 1]
         IN  IF v = 0 THEN DeResult(d1, "Ok", <<0>>, 0, <<d1.pos>>)
             ELSE DeResult(d1, "Ok", <<1>>, 0, <<d1.pos>>)

\* deserialize_bool / the tag of deserialize_option: read_u8, then the match
\* on the byte; the value is <<0>> (false, None) or <<1>> (true, Some)
deserialize_bool(d) ==
    IF d.pos >= BLen(d.input)
    THEN DeResult(d, "Eof", <<>>, 0, <<d.pos>>)
    ELSE LET v == ByteValues(Slice(d.input, d.pos, d.pos + 1))[1]
             d1 == [d EXCEPT !.pos = d.pos + 1]
         IN  IF v = 0 THEN DeResult(d1, "Ok", <<0>>, 0, <<d1.pos>>)
             ELSE IF v = 1 THEN DeResult(d1, "Ok", <<1>>, 0, <<d1.pos>>)
             ELSE DeResult(d1, "InvalidBool", <<>>, v, <<d1.pos>>)

\* T::deserialize(&mut deserializer) for the type ty; each read's result is
\* handed to the code that follows the read
RECURSIVE deserialize_value(_, _, _)
deserialize_value(ty, d, build) ==
    LET Value(t, n, kids) == [t |-> t, w |-> ty.w, n |-> n, kids |-> kids]
        Fail(r) == DeResult(r.d, r.status, <<>>, 0, <<r.d.pos>>)
        bytes_of(r) ==
            ByteValues(Slice(d.input, r.start, r.start + U64ToNat(r.len)))
        \* read_u16 / read_u32 / read_u64 (and read_u8, which cannot overflow)
        read_word(d0, w) ==
            LET word(r) ==
                    IF r.status # "Ok"
                    THEN [d |-> r.d, status |-> r.status, x |-> U64OfNat(0)]
                    ELSE [d |-> r.d, status |-> "Ok",
                          x |-> from_le_bytes(
                                  ByteValues(Slice(d0.input, r.start, r.start + w))
                                    \o [i \in 1..(8 - w) |-> 0])]
            IN  word(de_read_bytes(d0, U64OfNat(w), build))
        \* SeqDeserializer: n elements, element k of type tys[k] (of tys[1]
        \* for a sequence); the first failing element ends the visit
        RECURSIVE elems(_, _, _, _, _, _)
        elems(tys, k, n, d0, vs, tr) ==
            LET next(r) ==
                    IF r.status # "Ok"
                    THEN DeResult(r.d, r.status, <<>>, r.err, tr \o r.trace)
                    ELSE elems(tys, k + 1, n, r.d, Append(vs, r.v), tr \o r.trace)
            IN  IF k > n THEN DeResult(d0, "Ok", vs, 0, tr)
                ELSE next(deserialize_value(
                            IF k <= Len(tys) THEN tys[k] ELSE tys[1], d0, build))
        Compound(t, n, r) ==
            IF r.status # "Ok" THEN r
            ELSE DeResult(r.d, "Ok", Value(t, n, r.v), 0, r.trace)
        boolean(r) ==
            IF r.status # "Ok" THEN r
            ELSE DeResult(r.d, "Ok", Value("bool", r.v, <<>>), 0, r.trace)
        number(r) ==
            IF r.status # "Ok" THEN Fail(r)
            ELSE DeResult(r.d, "Ok",
                          Value(ty.t, IF ty.t \in Signed
                                      THEN cast_signed(r.x, ty.w)
                                      ELSE r.x \o <<0>>, <<>>),
                          0, <<r.d.pos>>)
        buffer(len, r) ==
            IF r.status # "Ok"
            THEN DeResult(r.d, r.status, <<>>, 0, <<len.d.pos, r.d.pos>>)
            ELSE IF ty.t = "str" /\ ~from_utf8(bytes_of(r))
            THEN DeResult(r.d, "Utf8Error", <<>>, 0, <<len.d.pos, r.d.pos>>)
            ELSE DeResult(r.d, "Ok", Value(ty.t, bytes_of(r), <<>>),
                          0, <<len.d.pos, r.d.pos>>)
        prefixed(len) ==
            IF len.status # "Ok" THEN Fail(len)
            ELSE buffer(len, de_read_bytes(len.d, len.x, build))
        optional(tag) ==
            IF tag.status = "InvalidBool"
            THEN DeResult(tag.d, "invalid option tag", <<>>, 0, tag.trace)
            ELSE IF tag.status # "Ok" THEN tag
            ELSE IF tag.v = <<0>>
            THEN DeResult(tag.d, "Ok", Value("none", <<>>, <<>>), 0, tag.trace)
            ELSE Compound("some", <<>>,
                          elems(ty.kids, 1, 1, tag.d, <<>>, tag.trace))
        \* every element type here takes at least one byte, so a count above
        \* the input length ends in the same Eof
        sequence(len) ==
            IF len.status # "Ok" THEN Fail(len)
            ELSE Compound("seq", <<>>,
                          elems(ty.kids, 1,
                                IF U64Small(len.x) /\ U64ToNat(len.x) <= BLen(d.input)
                                THEN U64ToNat(len.x) ELSE BLen(d.input) + 1,
                                len.d, <<>>, <<len.d.pos>>))
        variant(idx, i) ==
            Compound(ty.kids[i + 1].t, <<i>>,
                     elems(ty.kids[i + 1].kids, 1, Len(ty.kids[i + 1].kids),
                           idx.d, <<>>, <<idx.d.pos>>))
        enumeration(idx) ==
            IF idx.status # "Ok" THEN Fail(idx)
            ELSE IF ~(U64Small(idx.x) /\ U64ToNat(idx.x) < Len(ty.kids))
            THEN DeResult(idx.d, "invalid value", <<>>, 0, <<idx.d.pos>>)
            ELSE variant(idx, U64ToNat(idx.x))
    IN  CASE ty.t = "bool" -> boolean(deserialize_bool(d))
          [] ty.t \in Unsigned \cup Signed -> number(read_word(d, ty.w))
          [] ty.t \in {"str", "bytes"} -> prefixed(read_word(d, 8))
          [] ty.t = "option" -> optional(deserialize_bool(d))
          [] ty.t = "seq" -> sequence(read_word(d, 8))
          [] ty.t = "struct" ->
                Compound("struct", <<>>,
                         elems(ty.kids, 1, Len(ty.kids), d, <<>>, <<>>))
          [] ty.t = "enum" -> enumeration(read_word(d, 4))

\* from_bytes::<T>(bytes) / deserialize::<T>(bytes)
from_bytes(ty, bytes, build) == deserialize_value(ty, DeserializerNew(bytes), build)

----------------------------------------------------------------------------
(* Specification SpecSerde: one value of one of the types below is encoded *)
(* by to_vec; the bytes, as they are, cut short or with some of them       *)
(* overwritten, are then decoded by from_bytes for the same type.          *)

Ty(t, w, kids) == [t |-> t, w |-> w, kids |-> kids]
Val(t, w, n, kids) == [t |-> t, w |-> w, n |-> n, kids |-> kids]

\* the types and values of tests/full_compat.rs, with the extreme integers
SerdeInputs ==
    LET Num(t, w) == Ty(t, w, <<>>)
        Of(ty, ns) == {[fn |-> "serde", ty |-> ty, v |-> Val(ty.t, ty.w, n, <<>>)] : n \in ns}
        Are(ty, vs) == {[fn |-> "serde", ty |-> ty, v |-> v] : v \in vs}
        I(t, w, n) == Val(t, w, n, <<>>)
        NestedStruct == Ty("struct", 0, <<Num("i32", 4), Num("bool", 0)>>)
        Nested(value, flag) ==
            Val("struct", 0, <<>>, <<I("i32", 4, value), I("bool", 0, flag)>>)
        VecU8 == Ty("seq", 0, <<Num("u8", 1)>>)
        VecU32 == Ty("seq", 0, <<Num("u32", 4)>>)
        OptNested == Ty("option", 0, <<NestedStruct>>)
        OptU8 == Ty("option", 0, <<Num("u8", 1)>>)
        ComplexStruct ==
            Ty("struct", 0, <<Num("u64", 8), Num("str", 0), VecU8, OptNested>>)
        TestEnum ==
            Ty("enum", 0,
               << Ty("unit_variant", 0, <<>>),
                  Ty("newtype_variant", 0, <<Num("u64", 8)>>),
                  Ty("tuple_variant", 0, <<Num("u32", 4), Num("u32", 4)>>),
                  Ty("struct_variant", 0, <<Num("i16", 2), Num("i16", 2)>>) >>)
    IN  Of(Num("bool", 0), {<<0>>, <<1>>})
        \cup Of(Num("u8", 1), {<<0, 0, 0, 0, 0>>, <<255, 0, 0, 0, 0>>})
        \cup Of(Num("u16", 2), {<<65535, 0, 0, 0, 0>>})
        \cup Of(Num("u32", 4), {<<65535, 65535, 0, 0, 0>>})
        \cup Of(Num("u64", 8), {<<65535, 65535, 65535, 65535, 0>>})
        \cup Of(Num("i8", 1), {<<127, 0, 0, 0, 0>>, <<128, 0, 0, 0, 1>>, <<1, 0, 0, 0, 1>>})
        \cup Of(Num("i16", 2), {<<32767, 0, 0, 0, 0>>, <<32768, 0, 0, 0, 1>>})
        \cup Of(Num("i32", 4), {<<65535, 32767, 0, 0, 0>>, <<0, 32768, 0, 0, 1>>})
        \cup Of(Num("i64", 8), {<<65535, 65535, 65535, 32767, 0>>, <<0, 0, 0, 32768, 1>>})
        \cup Of(Num("f32", 4), {<<4048, 16457, 0, 0, 0>>, <<0, 65408, 0, 0, 0>>})
        \cup Of(Num("f64", 8), {<<22377, 35604, 48906, 16389, 0>>, <<1, 0, 0, 32760, 0>>})
        \cup Of(Num("str", 0), {<<>>, <<195, 169, 228, 184, 150, 240, 159, 140, 141>>})
        \cup Of(Num("bytes", 0), {<<>>, <<1, 2, 255>>})
        \cup Are(VecU32, { Val("seq", 0, <<>>, <<>>),
                           Val("seq", 0, <<>>, << I("u32", 4, <<1, 0, 0, 0, 0>>),
                                                  I("u32", 4, <<2, 0, 0, 0, 0>>) >>) })
        \cup Are(OptU8, { Val("none", 0, <<>>, <<>>),
                          Val("some", 0, <<>>, <<I("u8", 1, <<42, 0, 0, 0, 0>>)>>) })
        \cup Are(TestEnum,
                 { Val("unit_variant", 0, <<0>>, <<>>),
                   Val("newtype_variant", 0, <<1>>, <<I("u64", 8, <<42, 0, 0, 0, 0>>)>>),
                   Val("tuple_variant", 0, <<2>>, << I("u32", 4, <<100, 0, 0, 0, 0>>),
                                                     I("u32", 4, <<200, 0, 0, 0, 0>>) >>),
                   Val("struct_variant", 0, <<3>>, << I("i16", 2, <<10, 0, 0, 0, 1>>),
                                                      I("i16", 2, <<20, 0, 0, 0, 0>>) >>) })
        \cup Are(ComplexStruct,
                 { Val("struct", 0, <<>>,
                       << I("u64", 8, <<12274, 29646, 2874, 0, 0>>),
                          I("str", 0, <<72, 101, 108, 108, 111>>),
                          Val("seq", 0, <<>>, << I("u8", 1, <<1, 0, 0, 0, 0>>),
                                                 I("u8", 1, <<2, 0, 0, 0, 0>>) >>),
                          Val("some", 0, <<>>, <<Nested(<<42, 0, 0, 0, 1>>, <<1>>)>>) >>),
                   Val("struct", 0, <<>>,
                       << I("u64", 8, <<0, 0, 0, 0, 0>>),
                          I("str", 0, <<>>),
                          Val("seq", 0, <<>>, <<>>),
                          Val("none", 0, <<>>, <<>>) >>) })

InitSerde ==
    /\ pc = "serde"
    /\ inp \in SerdeInputs
    /\ out = <<>>
    /\ dec = NoDecoder
    /\ inner = "None"
    /\ fast_buffer = <<>>
    /\ acc = <<>>
    /\ calls = <<>>
    /\ ops = <<>>
    /\ written = <<>>
    /\ par = NoPar
    /\ deserializer = NoDeserializer
    /\ handles = NoHandles
    /\ back = NoResult

SerdeFrame == UNCHANGED <<inner, fast_buffer, acc, calls, written, dec, inp, par, handles>>

\* to_vec(&value)
ToVec ==
    /\ pc = "serde"
    /\ out' = to_vec(inp.v)
    /\ ops' = <<"to_vec">>
    /\ pc' = "encoded"
    /\ SerdeFrame
    /\ UNCHANGED <<deserializer, back>>

\* the input of from_bytes is a proper prefix of an encoding
Truncate ==
    /\ pc = "encoded"
    /\ \E k \in 0..(BLen(out) - 1) : out' = Take(out, k)
    /\ ops' = Append(ops, "truncate")
    /\ pc' = "tampered"
    /\ SerdeFrame
    /\ UNCHANGED <<deserializer, back>>

\* the input of from_bytes is an encoding with 1 or 8 bytes overwritten
Corrupt ==
    /\ pc = "encoded"
    /\ \E i \in 0..(BLen(out) - 1), k \in {1, 8}, b \in {0, 1, 2, 255} :
          /\ i + k <= BLen(out)
          /\ out' = WriteAt(out, i, One(Lit(b, k)))
    /\ ops' = Append(ops, "corrupt")
    /\ pc' = "tampered"
    /\ SerdeFrame
    /\ UNCHANGED <<deserializer, back>>

\* from_bytes::<T>(&out)
FromBytes ==
    /\ pc \in {"encoded", "tampered"}
    /\ \E build \in Builds :
          LET r == from_bytes(inp.ty, out, build)
          IN  /\ back' = r
              /\ deserializer' = r.d
    /\ ops' = Append(ops, "from_bytes")
    /\ pc' = "decoded"
    /\ SerdeFrame
    /\ UNCHANGED out

NextSerde ==
    \/ ToVec
    \/ Truncate
    \/ Corrupt
    \/ FromBytes

SpecSerde == InitSerde /\ [][NextSerde]_vars

----------------------------------------------------------------------------
(* Claims about the parallel chunked codec                                 *)

PodParallel == inp.fn = "serialize_pod_parallel" /\ inp.n >= 1000000
VecParallel == inp.fn = "serialize_vec_parallel" /\ inp.n >= 1000000

\* C7: serialize_vec_parallel(v) = serialize(v) below and at or above 1,000,000
\* elements: one 8-byte little-endian element count, then the chunk buffers in
\* chunk order, whatever order the workers complete in.
C7_VecParallelMatchesSerialize ==
    (pc = "returned" /\ inp.fn = "serialize_vec_parallel") =>
        /\ out = serialize(inp)
        /\ Take(out, 8) = LE64(inp.n)
        /\ BLen(out) = 8 + inp.n * inp.s

\* the parallel path has returned for a vector whose last chunk is short
C7_Witness ==
    /\ pc = "returned"
    /\ VecParallel
    /\ inp.n % 100000 # 0
    /\ par.done = 0..10

\* the byte range stated for worker i
ClaimedRange(i) ==
    LET len_i == Min(100000, inp.n - i * 100000)
    IN  [lo |-> 8 + i * 100000 * inp.s, hi |-> 8 + i * 100000 * inp.s + len_i * inp.s]

\* C8: in serialize_pod_parallel with n >= 1,000,000 the worker for chunk i
\* writes exactly the bytes [8 + i*100000*s, 8 + i*100000*s + len_i*s); the
\* ranges are pairwise disjoint, lie inside the buffer of 8 + n*s bytes, leave
\* the 8-byte prefix alone and, once all workers are done, cover the payload.
C8_WorkerRangesDisjoint ==
    (PodParallel /\ pc \in {"pod_scope", "returned"}) =>
        /\ \A i \in par.done :
              /\ par.res[i] = ClaimedRange(i)
              /\ 8 <= par.res[i].lo
              /\ par.res[i].lo < par.res[i].hi
              /\ par.res[i].hi <= 8 + inp.n * inp.s
        /\ \A i, j \in par.done :
              i # j => (par.res[i].hi <= par.res[j].lo \/ par.res[j].hi <= par.res[i].lo)
        /\ BLen(out) = 8 + inp.n * inp.s
        /\ Take(out, 8) = LE64(inp.n)
        /\ pc = "returned" =>
              /\ par.done = 0..((inp.n + 99999) \div 100000 - 1)
              /\ par.res[0].lo = 8
              /\ \A i \in par.done \ {0} : par.res[i].lo = par.res[i - 1].hi
              /\ par.res[par.spawned - 1].hi = 8 + inp.n * inp.s
              /\ Drop(out, 8) = PodBytes(inp)

\* eleven workers of 8-byte elements have all written, the last a short chunk
C8_Witness ==
    /\ pc = "returned"
    /\ PodParallel
    /\ inp.s = 8
    /\ inp.n = 1000001
    /\ Cardinality(par.done) = 11

\* C9: serialize_pod_parallel(v) = serialize_pod(v) for every slice and every
\* interleaving of the workers, below and at or above 1,000,000 elements.
C9_PodParallelMatchesPod ==
    (pc = "returned" /\ inp.fn = "serialize_pod_parallel") =>
        out = serialize_pod(inp, inp)

\* C10: when serialize_pod_parallel or serialize_vec_parallel has returned,
\* every worker it spawned has finished, so none can still write to the result.
C10_WorkersJoinedOnReturn ==
    pc = "returned" =>
        /\ (0..(par.spawned - 1)) \ par.done = {}
        /\ PodParallel => par.spawned = (inp.n + 99999) \div 100000
        /\ VecParallel => par.spawned = (inp.n + 99999) \div 100000

\* a parallel call has returned after spawning its workers
C10_Witness ==
    /\ pc = "returned"
    /\ PodParallel
    /\ par.spawned >= 10
    /\ par.done # {}

----------------------------------------------------------------------------
(* Claims about the type-directed serializer and deserializer              *)

\* the encoding of a value by structural recursion, as byte values: numbers
\* as their w little-endian bytes (two's complement when negative), counts as
\* 8 bytes, option tags as 1 byte, variant indexes as 4 bytes
RECURSIVE RefEnc(_)
RefEnc(v) ==
    LET RECURSIVE All(_)
        All(vs) == IF vs = <<>> THEN <<>> ELSE RefEnc(vs[1]) \o All(Tail(vs))
        \* byte i (from 0) of the magnitude
        MagByte(i) == IF i % 2 = 0 THEN v.n[i \div 2 + 1] % 256
                                   ELSE v.n[i \div 2 + 1] \div 256
        Mag == [i \in 1..v.w |-> MagByte(i - 1)]
        RECURSIVE Negate(_, _)
        Negate(i, carry) ==
            IF i > v.w THEN <<>>
            ELSE <<(255 - Mag[i] + carry) % 256>>
                    \o Negate(i + 1, (255 - Mag[i] + carry) \div 256)
        Small(k, w) == [i \in 1..w |-> IF i = 1 THEN k % 256
                                       ELSE IF i = 2 THEN (k \div 256) % 256
                                       ELSE 0]
    IN  CASE v.t = "bool" -> IF v.n = <<1>> THEN <<1>> ELSE <<0>>
          [] v.t \in Unsigned -> Mag
          [] v.t \in Signed -> IF v.n[5] = 1 THEN Negate(1, 1) ELSE Mag
          [] v.t \in {"str", "bytes"} -> Small(Len(v.n), 8) \o v.n
          [] v.t = "seq" -> Small(Len(v.kids), 8) \o All(v.kids)
          [] v.t = "none" -> <<0>>
          [] v.t = "some" -> <<1>> \o All(v.kids)
          [] v.t = "struct" -> All(v.kids)
          [] v.t \in Variants -> Small(v.n[1], 4) \o All(v.kids)

\* C11: deserialize(serialize(v)) = v for primitives (signed integers at their
\* minimum and maximum included), nested structs, options, enums with unit,
\* newtype, tuple and struct variants, multi-byte strings, sequences and byte
\* buffers; the decoder consumes exactly the encoding.
C11_SerdeRoundTrip ==
    (pc = "decoded" /\ ops = <<"to_vec", "from_bytes">>) =>
        /\ back.status = "Ok"
        /\ back.v = inp.v
        /\ back.d.pos = BLen(out)

\* the nested struct with a negative field inside a present option came back
C11_Witness ==
    /\ pc = "decoded"
    /\ ops = <<"to_vec", "from_bytes">>
    /\ inp.ty.t = "struct"
    /\ inp.v.kids[4].t = "some"
    /\ inp.v.kids[4].kids[1].kids[1].n[5] = 1

\* C12: serialize(v) is the reference encoding of v: fixed-width little-endian
\* integers, one-byte bools, 8-byte counts before sequences, strings and byte
\* buffers, one-byte option tags, struct fields in order without tags, 4-byte
\* variant indexes; None is 00, Some(42u8) is 01 2A, an empty byte buffer is
\* eight zero bytes.
C12_ReferenceEncoding ==
    (pc = "encoded") =>
        /\ ByteValues(out) = RefEnc(inp.v)
        /\ inp.v.t = "none" => ByteValues(out) = <<0>>
        /\ (inp.v.t = "some" /\ inp.ty.kids[1].t = "u8") => ByteValues(out) = <<1, 42>>
        /\ (inp.v.t = "bytes" /\ inp.v.n = <<>>) =>
              ByteValues(out) = <<0, 0, 0, 0, 0, 0, 0, 0>>

\* an enum value with a struct variant of negative and positive fields is encoded
C12_Witness ==
    /\ pc = "encoded"
    /\ inp.v.t = "struct_variant"
    /\ BLen(out) = 8

\* C14: a length-prefixed read (string, byte buffer) returns Err(Eof) whenever
\* fewer bytes remain than the prefix declares, for every declared length up
\* to 2^64 - 1, and no read ever panics.
C14_ShortInputIsEof ==
    (pc = "decoded" /\ inp.ty.t \in {"str", "bytes"}) =>
        /\ back.status # "Panic"
        /\ BLen(out) < 8 => back.status = "Eof"
        /\ (BLen(out) >= 8 /\ ~FitsIn(DeclaredOf(out), 1, BLen(out))) =>
              back.status = "Eof"

\* C15: the read position of a Deserializer starts at 0, never decreases over
\* the reads of a decoding, failed reads included, and stays within
\* 0 .. input length.
C15_PosMonotone ==
    (pc = "decoded") =>
        /\ \A i \in 1..Len(back.trace) :
              /\ 0 <= back.trace[i]
              /\ back.trace[i] <= BLen(out)
              /\ i > 1 => back.trace[i - 1] <= back.trace[i]
        /\ deserializer.pos <= BLen(out)
        /\ back.trace # <<>> => deserializer.pos = back.trace[Len(back.trace)]

\* a decoding of a cut-short input failed after at least one successful read
C15_Witness ==
    /\ pc = "decoded"
    /\ back.status = "Eof"
    /\ Len(back.trace) >= 3
    /\ back.trace[1] > 0

\* C16: a bool byte other than 0 and 1 fails with InvalidBool carrying the
\* byte, an option tag other than 0 and 1 fails with an invalid-option-tag
\* error, neither produces a value; 0 decodes to false / None, 1 to true / Some.
C16_InvalidBoolAndTag ==
    (pc = "decoded" /\ inp.ty.t \in {"bool", "option"} /\ BLen(out) >= 1) =>
        LET b == ByteValues(Take(out, 1))[1]
        IN  /\ (inp.ty.t = "bool" /\ b \notin {0, 1}) =>
                (back.status = "InvalidBool" /\ back.err = b /\ back.v = <<>>)
            /\ (inp.ty.t = "bool" /\ b = 0) => (back.status = "Ok" /\ back.v.n = <<0>>)
            /\ (inp.ty.t = "bool" /\ b = 1) => (back.status = "Ok" /\ back.v.n = <<1>>)
            /\ (inp.ty.t = "option" /\ b \notin {0, 1}) =>
                (back.status = "invalid option tag" /\ back.v = <<>>)
            /\ (inp.ty.t = "option" /\ b = 0) => (back.status = "Ok" /\ back.v.t = "none")
            /\ (inp.ty.t = "option" /\ b = 1 /\ back.status = "Ok") => back.v.t = "some"

\* a bool byte of 255 was rejected
C16_Witness ==
    /\ pc = "decoded"
    /\ inp.ty.t = "bool"
    /\ back.status = "InvalidBool"
    /\ back.err = 255

----------------------------------------------------------------------------
(* Claims about the Encoder and the accelerator boundary                   *)

OnlyVecBincode == \A i \in DOMAIN ops : ops[i] = "write_vec_bincode"
Primitive(name) == name \in {"write_u8", "write_u16", "write_u32", "write_u64", "write_bytes"}
Mixed ==
    /\ \E i \in DOMAIN ops : ops[i] = "write_vec_bincode"
    /\ \E i \in DOMAIN ops : Primitive(ops[i])

\* C1: after any sequence of write_vec_bincode calls on one Encoder, finish()
\* returns LE64(len(d1)) ++ d1 ++ ... ++ LE64(len(dn)) ++ dn: every call only
\* appends, and nothing an earlier call wrote is overwritten or dropped.
C1_VecBincodeAppends ==
    (pc = "finished" /\ OnlyVecBincode) => out = written

\* C2: after any sequence that mixes write_u8/u16/u32/u64/write_bytes with
\* write_vec_bincode, finish() returns the encodings of the writes in call order.
C2_MixedWritesInCallOrder ==
    (pc = "finished" /\ Mixed) => out = written

\* C3: every span handed to the accelerator in one call
\* (limcode_encoder_write_bytes, limcode_decoder_read_bytes) is at most 48 KiB.
C3_SpanAtMost48K ==
    \A i \in DOMAIN calls : calls[i] <= 48 * 1024

\* a write_vec_bincode above the threshold that first flushed a full fast
\* buffer and then sent its payload in chunks of exactly 48 KiB
C3_Witness ==
    /\ pc = "enc"
    /\ Len(ops) = 2
    /\ ops[2] = "write_vec_bincode"
    /\ Len(calls) > 2
    /\ calls[1] = FAST_PATH_THRESHOLD + 8
    /\ calls[2] = 48 * 1024

\* C13: on a fresh Encoder, write_vec_bincode(data) then finish() returns
\* LE64(len(data)) ++ data, the bytes serialize_bincode(data) returns, for
\* every length; so serialize_bincode(data) is LE64(len(data)) ++ data.
C13_SerializeBincodeIsPrefixedData ==
    (pc = "pod_done" /\ ops[1] = "serialize_bincode") =>
        out = Cat(LE64(inp.n), PodBytes(inp))

\* the Encoder's side of C13 for the lengths of EncLens: write_vec_bincode then
\* finish() returns LE64(len) ++ data, which is what serialize_bincode returns
VecBincodeMatchesSerializeBincode ==
    (pc = "finished" /\ ops = <<"write_vec_bincode">>) =>
        LET n == BLen(written) - 8
            data == One(Dat(1, 0, n))
        IN  /\ out = Cat(LE64(n), data)
            /\ \A a \in Aligns, s \in Simds :
                  out = serialize_bincode(data, [align |-> a, simd |-> s])

\* C17: after writes none of which carries more than 4096 bytes the Encoder
\* holds no accelerator handle (stated for write sequences whose encodings
\* add up to at most 4096 bytes).
C17_HandleCreatedLazily ==
    (pc = "enc" /\ BLen(written) <= 4096) => inner = "None"

\* C18: every accelerator handle is destroyed exactly once: never more often
\* than created, and none is left when finish() has returned (with or without
\* a null buffer) or the Encoder or Decoder has been dropped.
C18_HandleReleasedOnce ==
    /\ handles.freed <= handles.made
    /\ pc \in {"finished", "finished_null", "dropped"} => handles.freed = handles.made

\* C19: deserialize_pod(bytes) succeeds exactly when deserialize_pod_borrowed
\* (bytes) does, then with a vector equal to the borrowed view element for
\* element; when the borrowed path fails, the owned path fails the same way.
C19_OwnedMatchesBorrowed ==
    (pc = "de_done" /\ ops[1] = "deserialize_pod") =>
        LET b == deserialize_pod_borrowed(inp.data, inp.s, inp.build)
        IN  /\ out.status = b.status
            /\ b.status = "Ok" =>
                  /\ out.count = b.count
                  /\ U64Small(b.count)
                  /\ out.vec = Slice(inp.data, b.start,
                                     b.start + U64ToNat(b.count) * inp.s)

\* C20: deserialize_pod::<T>(serialize_pod(v)) = v for every slice v of a
\* fixed-layout primitive type, the empty slice included: the same number of
\* elements with the same bytes.
C20_PodRoundTrip ==
    (pc = "pod_back") =>
        /\ back.status = "Ok"
        /\ back.count = U64OfNat(inp.n)
        /\ back.vec = PodBytes(inp)

----------------------------------------------------------------------------
(* Claims about the checked and the unchecked byte-slice reader            *)

\* an input with its 8 prefix bytes whose declared length fits behind them
WellFormed(data) == BLen(data) >= 8 /\ FitsIn(DeclaredOf(data), 1, BLen(data))

\* C21: for every well-formed buffer (at least 8 bytes, declared length at
\* most data.len() - 8) deserialize_bincode(data) is Ok with the view that
\* deserialize_bincode_unchecked(data) returns: offset 8, the declared length,
\* the same bytes.
C21_CheckedMatchesUnchecked ==
    (pc = "de_done" /\ WellFormed(inp.data)) =>
        LET checked == deserialize_bincode(inp.data, inp.build)
            unchecked == deserialize_bincode_unchecked(inp.data)
            view(r) == Slice(inp.data, r.start, r.start + U64ToNat(r.len))
        IN  /\ ops[1] = "deserialize_bincode" =>
                /\ out.status = "Ok"
                /\ out.start = 8
                /\ out.len = DeclaredOf(inp.data)
                /\ unchecked = {out}
            /\ ops[1] = "deserialize_bincode_unchecked" =>
                /\ out = checked
                /\ view(out) = view(checked)
                /\ BLen(view(out)) = U64ToNat(DeclaredOf(inp.data))

\* the checked reader has returned on an input that its declared, nonzero
\* length fills exactly
C21_Witness ==
    /\ pc = "de_done"
    /\ ops[1] = "deserialize_bincode"
    /\ WellFormed(inp.data)
    /\ out.status = "Ok"
    /\ U64ToNat(out.len) > 0
    /\ BLen(inp.data) = 8 + U64ToNat(out.len)

----------------------------------------------------------------------------
(* Claims about a Decoder reading back what an Encoder wrote                *)

\* C22: after any sequence of write_u8 / write_u16 / write_u32 / write_u64 /
\* write_varint / write_bytes on a fresh Encoder, a Decoder over the finish()
\* output driven by the matching reads returns the same values in the same
\* order, every read succeeding, and ends at the end of the output.
C22_EncoderDecoderRoundTrip ==
    (pc = "readback") =>
        /\ back.ok
        /\ \A k \in 1..Len(back.reads) :
              /\ back.reads[k] = inp.args[k]
              /\ ops[k] = "write_u8" => back.vals[k] = U64OfNat(U8Val)
              /\ ops[k] = "write_u16" => back.vals[k] = U64OfNat(U16Val)
              /\ ops[k] = "write_u32" => back.vals[k] = U64OfNat(U32Val)
              /\ ops[k] = "write_u64" => back.vals[k] = U64OfNat(U64Val)
              /\ ops[k] = "write_varint" =>
                    /\ U64ToNat(back.vals[k]) \in VarintVals
                    /\ Lits(leb128(U64ToNat(back.vals[k]))) = inp.args[k]
              /\ ops[k] = "write_bytes" => back.vals[k] = inp.args[k]
        /\ Len(back.reads) = Len(ops) => (out = written /\ dec.pos = dec.len)

\* a three-byte varint, a payload sent and read back in 48 KiB chunks and a
\* u32 have all been read back
C22_Witness ==
    /\ pc = "readback"
    /\ ops = <<"write_varint", "write_bytes", "write_u32">>
    /\ Len(back.reads) = 3
    /\ BLen(inp.args[1]) = 3
    /\ BLen(inp.args[2]) = 1048577
    /\ Len(calls) = 0
    /\ back.vals[3] = U64OfNat(U32Val)

----------------------------------------------------------------------------
(* Claims about buffer reuse, the copy engine and pre-faulting             *)

\* the bytes of s that the call did not write
Unwritten(s) == {i \in DOMAIN s : s[i].k \in {"uninit", "pf"}}

\* C23: serialize_pod_into(v, buf) leaves buf equal to serialize_pod(v)
\* whatever buf held before (any prior length, contents or capacity): the
\* result is the same for every prior buffer, has the length of the last
\* input's encoding, and every byte of it was written by this call.
C23_IntoMatchesPodOnAnyBuffer ==
    (pc = "pod_done" /\ ops[1] = "serialize_pod_into") =>
        /\ \A a \in Aligns, buf \in PriorBufs :
              /\ serialize_pod_into(inp, buf, inp) = out
              /\ out = serialize_pod(inp, [inp EXCEPT !.align = a])
        /\ BLen(out) = 8 + inp.n * inp.s
        /\ Unwritten(out) = {}
        /\ Drop(out, 8) = PodBytes(inp)

\* serialize_pod_into has returned after pre-faulting and filling an
\* allocation that an earlier use had left full of other bytes
C23_Witness ==
    /\ pc = "pod_done"
    /\ ops[1] = "serialize_pod_into"
    /\ inp.n * inp.s > PREFAULT_THRESHOLD
    /\ inp.n * inp.s + 8 <= 20000008
    /\ \E buf \in PriorBufs :
          /\ BLen(buf) = 20000008
          /\ Unwritten(buf) # {}
          /\ out = serialize_pod_into(inp, buf, inp)

----------------------------------------------------------------------------
(* Claims about the spans handed to the accelerator                        *)

\* the chunk lengths for a span of n bytes: all of it in one call up to 4096
\* bytes, else chunks of 16 KiB up to 64 KiB, of 32 KiB up to 1 MiB and of
\* 48 KiB above, the last chunk holding the rest
ExpectedChunks(n) ==
    LET cs == IF n <= 65536 THEN 16384 ELSE IF n <= 1048576 THEN 32768 ELSE 49152
        m == (n + cs - 1) \div cs
    IN  IF n <= 4096 THEN <<n>>
        ELSE [i \in 1..m |-> IF i < m THEN cs ELSE n - (m - 1) * cs]

RECURSIVE SumOf(_)
SumOf(q) == IF q = <<>> THEN 0 ELSE q[1] + SumOf(Tail(q))

\* C24: write_bytes(data) and read_bytes(out) pass a span of n bytes to the
\* accelerator in consecutive chunks of n (one call) up to 4096 bytes, 16384
\* up to 65536, 32768 up to 1048576 and 49152 above; in order, only the last
\* shorter, the lengths summing to n: the span goes over once, without gap
\* or repetition. (A read that fails stops at its failing chunk.)
C24_ChunkedSpans ==
    /\ (pc = "enc" /\ ops # <<>> /\ ops[Len(ops)] = "write_bytes") =>
          LET data == inp.args[Len(ops)]
          IN  /\ calls = ExpectedChunks(BLen(data))
              /\ SumOf(calls) = BLen(data)
              /\ Drop(acc, BLen(acc) - BLen(data)) = data
    /\ (pc = "dec" /\ ops # <<>> /\ ops[Len(ops)] = "read_bytes") =>
          LET want == ExpectedChunks(back.len)
          IN  IF dec.ok
              THEN /\ calls = want
                   /\ SumOf(calls) = back.len
                   /\ back.before - limcode_decoder_remaining(dec) = back.len
              ELSE /\ calls # <<>>
                   /\ Len(calls) <= Len(want)
                   /\ calls = SubSeq(want, 1, Len(calls))
    /\ (pc = "readback" /\ back.reads # <<>>
            /\ ops[Len(back.reads)] = "write_bytes") =>
          /\ calls = ExpectedChunks(BLen(inp.args[Len(back.reads)]))
          /\ back.reads[Len(back.reads)] = inp.args[Len(back.reads)]

\* a payload of 1 MiB + 1 bytes has been written in 22 chunks, the last one
\* of 16385 bytes, after an earlier write
C24_Witness ==
    /\ pc = "enc"
    /\ Len(ops) = 2
    /\ ops[2] = "write_bytes"
    /\ BLen(inp.args[2]) = 1048577
    /\ Len(calls) = 22
    /\ calls[22] = 16385

----------------------------------------------------------------------------
(* Claims about the copy engine                                            *)

\* C25: fast_nt_memcpy(dst, src, len) ends (its loops take finitely many
\* turns, every store of the streaming loop going to an aligned address)
\* with dst[0..len) equal to src[0..len) and with nothing written outside
\* dst[0..len), for every len and every alignment of dst, on the AVX-512,
\* the AVX2, the SSE2 and the no-SIMD build alike.
C25_CopyIsExact ==
    (pc = "pod_done" /\ ops[1] = "fast_nt_memcpy") =>
        LET len == inp.n * inp.s
            w == VecWidth(inp.simd)
        IN  /\ Slice(out, back.dst, back.dst + len) = PodBytes(inp)
            /\ Take(out, back.dst) = Guard(back.dst)
            /\ Drop(out, back.dst + len) = Guard(64)
            /\ BLen(out) = back.dst + len + 64
            /\ back.ph.lead >= 0 /\ back.ph.main >= 0 /\ back.ph.tail >= 0
            /\ back.ph.lead + back.ph.main + back.ph.tail = len
            /\ back.ph.main > 0 =>
                  (inp.align + back.dst + back.ph.lead) % w = 0
            /\ \A simd \in Simds :
                  fast_nt_memcpy(Arena(back.dst, len), back.dst, PodBytes(inp),
                                 [inp EXCEPT !.simd = simd]) = out

\* 65,537 bytes have been copied to an unaligned destination on an AVX2
\* build, the last of them by the tail copy
C25_Witness ==
    /\ pc = "pod_done"
    /\ ops[1] = "fast_nt_memcpy"
    /\ inp.n * inp.s = 65537
    /\ inp.simd = "avx2"
    /\ (inp.align + back.dst) % 32 # 0
    /\ back.ph.tail = 1
    /\ Slice(out, back.dst, back.dst + 65537) = PodBytes(inp)

\* C26: above 64 KiB the lead-in of fast_nt_memcpy copies only the bytes up
\* to the next vector-width boundary of the destination (fewer than one
\* vector width), every full chunk then goes by non-temporal stores to an
\* aligned address, and only a tail shorter than one chunk is byte-copied.
C26_LeadInReachesAlignment ==
    (pc = "pod_done" /\ ops[1] = "fast_nt_memcpy"
        /\ inp.n * inp.s > NT_THRESHOLD /\ inp.simd # "none") =>
        LET w == VecWidth(inp.simd)
            b == BlockSize(inp.simd)
        IN  /\ back.ph.lead < w
            /\ (inp.align + back.dst + back.ph.lead) % w = 0
            /\ back.ph.tail < b
            /\ back.ph.main = ((inp.n * inp.s - back.ph.lead) \div b) * b

\* C27: pre-faulting leaves the output as it is without it: every byte that
\* prefault_pages zeroes is written again by the copy that follows, and the
\* 8 prefix bytes written before it are intact in the result.
C27_PrefaultLeavesOutput ==
    (pc = "pod_done"
        /\ ops[1] \in {"serialize_pod", "serialize_pod_into", "serialize_bincode"}
        /\ inp.n * inp.s > PREFAULT_THRESHOLD) =>
        /\ Take(out, 8) = LE64(inp.n)
        /\ Unwritten(out) = {}
        /\ out = Cat(LE64(inp.n), PodBytes(inp))

----------------------------------------------------------------------------
(* Claims about the Encoder's size and the Decoder's failed reads          *)

\* C28: after any sequence of writes on an Encoder, size() is the length of
\* the byte vector finish() would return at that point: the bytes the
\* accelerator holds plus the bytes pending in the fast buffer.
C28_SizeIsFinishLength ==
    (pc = "enc") =>
        /\ size(Self) = BLen(finish(Self, FALSE).ret)
        /\ size(Self) = BLen(acc) + BLen(fast_buffer)

\* two writes have left bytes both in the accelerator and in the fast buffer
C28_Witness ==
    /\ pc = "enc"
    /\ Len(ops) = 2
    /\ inner = "Some"
    /\ acc # <<>>
    /\ fast_buffer # <<>>
    /\ size(Self) = BLen(acc) + BLen(fast_buffer)

\* C29: Decoder::read_bytes(out) is all-or-nothing: with fewer than
\* out.len() bytes remaining it returns an error and remaining() is what it
\* was before the call, also when the read is split into several
\* accelerator calls of which an earlier one succeeds and a later one fails.
C29_ReadBytesAllOrNothing ==
    (pc = "dec" /\ ops # <<>> /\ ops[Len(ops)] = "read_bytes") =>
        /\ (back.before < back.len) <=> (back.status = "Err")
        /\ back.status = "Err" =>
              limcode_decoder_remaining(dec) = back.before
        /\ back.status = "Ok" =>
              limcode_decoder_remaining(dec) = back.before - back.len

----------------------------------------------------------------------------
(* The stack-buffer serializers of ultra_fast.rs                           *)
(*                                                                         *)
(* serialize_stack_small::<N> builds the encoding in a [u8; N] on the      *)
(* stack. A write beyond the N bytes is undefined behaviour: the call may  *)
(* return having overwritten its neighbours, or the process may die. past  *)
(* counts the bytes written beyond the buffer.                             *)

STACK_THRESHOLD == 120

StackSizes == {4, 8, 16, 128}
StackLens == (0..24) \cup {112, 119, 120, 121, 127, 128, 129, 200}

\* serialize_maybe_uninit(data)
serialize_maybe_uninit(data) ==
    [status |-> "Ok", ret |-> Cat(LE64(BLen(data)), data), past |-> 0,
     callee |-> "serialize_maybe_uninit"]

\* serialize_stack_small::<N>(data): the set of its outcomes
serialize_stack_small(N, data) ==
    LET len == BLen(data)
        \* the prefix goes to ptr[0..8), the payload to ptr[8..8 + len)
        total_len == len + 8
        past == IF total_len > N THEN total_len - N ELSE 0
        done == [status |-> "Ok", ret |-> Cat(LE64(len), data), past |-> past,
                 callee |-> "serialize_stack_small"]
    IN  IF ~(len <= N)
        THEN {[status |-> "panic", ret |-> <<>>, past |-> 0,
               callee |-> "serialize_stack_small"]}
        ELSE IF past = 0 THEN {done}
        ELSE {done, [done EXCEPT !.status = "abort", !.ret = <<>>]}

\* serialize_hybrid(data)
serialize_hybrid(data) ==
    IF BLen(data) <= STACK_THRESHOLD
    THEN serialize_stack_small(128, data)
    ELSE {serialize_maybe_uninit(data)}

InitStack ==
    /\ pc = "stack"
    /\ inp \in [fn : {"stack"}, N : StackSizes, len : StackLens]
    /\ dec = NoDecoder
    /\ inner = "None"
    /\ fast_buffer = <<>>
    /\ acc = <<>>
    /\ calls = <<>>
    /\ ops = <<>>
    /\ written = <<>>
    /\ out = <<>>
    /\ par = NoPar
    /\ deserializer = NoDeserializer
    /\ handles = NoHandles
    /\ back = NoResult

StackReturn(name, r) ==
    /\ pc = "stack"
    /\ out' = r.ret
    /\ back' = r
    /\ ops' = <<name>>
    /\ pc' = "stack_done"
    /\ UNCHANGED <<inner, fast_buffer, acc, calls, written, dec, inp, par,
                   deserializer, handles>>

SerializeStackSmall ==
    \E r \in serialize_stack_small(inp.N, PodBytes([n |-> inp.len, s |-> 1])) :
        StackReturn("serialize_stack_small", r)

SerializeHybrid ==
    \E r \in serialize_hybrid(PodBytes([n |-> inp.len, s |-> 1])) :
        StackReturn("serialize_hybrid", r)

SerializeMaybeUninit ==
    StackReturn("serialize_maybe_uninit",
                serialize_maybe_uninit(PodBytes([n |-> inp.len, s |-> 1])))

NextStack ==
    \/ SerializeStackSmall
    \/ SerializeHybrid
    \/ SerializeMaybeUninit

SpecStack == InitStack /\ [][NextStack]_vars

\* C30: serialize_stack_small::<N>(data) never writes outside its N-byte
\* stack buffer: for every data its assertion accepts (data.len() <= N) the
\* 8 prefix bytes and the payload fit in N bytes; and serialize_hybrid calls
\* it only with data.len() + 8 <= 128.
C30_StackBufferNeverOverrun ==
    (pc = "stack_done") =>
        /\ (ops[1] = "serialize_stack_small" /\ back.status # "panic") =>
              /\ 8 + inp.len <= inp.N
              /\ back.past = 0
        /\ (ops[1] = "serialize_hybrid" /\ back.callee = "serialize_stack_small") =>
              /\ inp.len + 8 <= 128
              /\ back.past = 0

====
